---- MODULE Spec2Model ----
(***************************************************************************)
(* Durable summarization scheduler of talk-trace-bot                       *)
(* (internal/scheduler/scheduler.go, internal/model/{task,dailyrun}.go).   *)
(*                                                                         *)
(* Two threads of control run inside one process: the cron worker that     *)
(* executes runDailySummary and the goroutine that executes                *)
(* recoverDailySummary.  Every call into the store, the LLM summarizer or  *)
(* the notifier is one step.  Time is counted in UTC days; a window is     *)
(* named by its end day, its start is end - RangeDays.                     *)
(***************************************************************************)
EXTENDS Integers, Sequences, FiniteSets, TLC

\* ---------------------------------------------------------------- bounds
MaxDay == 7

\* ------------------------------------------------------------- constants
CfgRangeDays == 1
CfgRetryTimes == 2
CfgRetentionDays == 2
DefaultRetryTimes == 3
NotifyRetryTimes == 2
StaleDays == 7

\* the chats that have posted messages
Chats == {1, 2}
\* the chats that post while the cron worker and recovery run side by side
SpecChats == {1}
Summaries == {"s1"}
Threads == {"cron", "rec"}

\* s.config.RangeDays with its default
RangeDays == IF CfgRangeDays <= 0 THEN 1 ELSE CfgRangeDays
\* s.config.RetryTimes with its default

VARIABLES
    cfgRetryTimes, \* s.config.RetryTimes
    up,          \* the process is running (Start has been called)
    cancelled,   \* s.ctx is done (Stop called s.cancel)
    today,       \* current UTC day
    runs,        \* DailyRun table, in creation order; id = index
    tasks,       \* Task table, in creation order; id = index
    msgs,        \* Message table: set of <<chat_id, day of sent_at>>
    pc,          \* program point of each thread
    loc,         \* local variables of each thread
    startTasks,  \* history: status and summary_content of each task at the last Start
    startInc,    \* history: ids of the runs that were incomplete at the last Start
    pickedSince, \* history: task ids set to processing since the last Start
    cMsgs,       \* splitMessagesIntoChunks: the messages
    cMax,        \* splitMessagesIntoChunks: maxTokensPerChunk
    cChunks,     \* splitMessagesIntoChunks: the chunks returned
    cDone,       \* splitMessagesIntoChunks has returned
    accumulated, \* SummarizeChat: the accumulated *topicsSummaryJSON
    partial,     \* SummarizeChat: the reply parsed for the last chunk
    prevAccumulated, \* SummarizeChat: accumulated before the last mergeTopics
    chunkNo,     \* SummarizeChat: number of chunks merged
    sumChunks,   \* SummarizeChat: len(chunks)
    sumCalls,    \* SummarizeChat: the chunks summarizeChatOnce was called for, in order
    sumReplies,  \* SummarizeChat: the replies parsed so far, in order
    sumRet,      \* SummarizeChat: "idle", "running", or returned "ok" / "error"
    sumOut,      \* SummarizeChat: the string returned, <<>> for ""
    swNow,       \* cleanupMessages: time.Now(), in ticks
    swDays,      \* cleanupMessages: s.config.RetentionDays
    swMsgs,      \* cleanupMessages: sent_at of the stored messages, in ticks
    swLeft,      \* cleanupMessages: sent_at of the messages left by the sweep
    swDone,      \* cleanupMessages has returned
    nMode,       \* Notify: n.config.NotifyMode
    nUserIds,    \* Notify: n.config.NotifyUserIds
    nSegs,       \* Notify: number of messages splitMessage makes of content
    nFails,      \* Notify: the sends <<recipient, segment>> that SendMessage refuses
    nSends,      \* Notify: the sends attempted, in order
    nErr,        \* Notify: the error returned
    nDone,       \* Notify has returned
    fResult,     \* FormatSummaryForDisplay: the *SummaryResult
    fChatID,     \* FormatSummaryForDisplay: chatID
    fOut,        \* FormatSummaryForDisplay: the text returned, in pieces
    fDone,       \* FormatSummaryForDisplay has returned
    ncMaxTokens, \* NewClient: cfg.MaxTokens
    ncMaxInput,  \* NewClient: maxInputTokens of the client built
    ncDone       \* NewClient has returned

\* the scheduler
sched == <<cfgRetryTimes, up, cancelled, today, runs, tasks, msgs, pc, loc,
           startTasks, startInc, pickedSince>>
\* the LLM client
sumVars == <<sumChunks, sumCalls, sumReplies, sumRet, sumOut>>
llmVars == <<cMsgs, cMax, cChunks, cDone, accumulated, partial, prevAccumulated, chunkNo,
             sumVars>>

\* one retention sweep
sweepVars == <<swNow, swDays, swMsgs, swLeft, swDone>>

\* one call of Notifier.Notify
notifyVars == <<nMode, nUserIds, nSegs, nFails, nSends, nErr, nDone>>

\* one call of FormatSummaryForDisplay
fmtVars == <<fResult, fChatID, fOut, fDone>>

\* one call of NewClient
ncVars == <<ncMaxTokens, ncMaxInput, ncDone>>

\* what no step of the scheduler changes
fixed == <<cfgRetryTimes, llmVars, sweepVars, notifyVars, fmtVars, ncVars>>

vars == <<sched, llmVars, sweepVars, notifyVars, fmtVars, ncVars>>

\* s.config.RetryTimes with its default
RetryTimes == IF cfgRetryTimes <= 0 THEN DefaultRetryTimes ELSE cfgRetryTimes

store == <<runs, tasks, msgs>>
hist == <<startTasks, startInc, pickedSince>>
env == <<up, cancelled, today>>

\* ------------------------------------------------------ local variables
InitLoc ==
    [win |-> 0, runId |-> 0, execRet |-> "none",
     attempt |-> 0, chatIDs |-> <<>>, toProcess |-> <<>>,
     successCount |-> 0, failCount |-> 0,
     cur |-> 0, summary |-> "", sent |-> FALSE, err |-> "none",
     ptRet |-> "none", sendRet |-> "none",
     incRuns |-> <<>>, pend |-> <<>>, staleMax |-> 0, sweeps |-> 0]

\* ------------------------------------------------------------ the store
\* every store call carries s.ctx: database/sql refuses a call whose
\* context is already done, so the call fails and changes nothing
CtxAlive == ~cancelled

\* the non-blocking select on ctx.Done() before an attempt, and the ctx.Done()
\* case of the select that a retry sleep waits in
CtxDoneNever == FALSE
CtxDone == cancelled

WinStart(w) == w - RangeDays

\* window of a cron fire or of the missed-day check: [today - rangeDays, today)
TodayWin == today

\* MessageModel.GetChatIDsByDateRange
ChatIDsInRange(w) == {c \in Chats : \E d \in WinStart(w)..(w - 1) : <<c, d>> \in msgs}

\* MessageModel.GetByDateRangeAndChat, used by SummarizeRange
HasMessages(c, w) == \E d \in WinStart(w)..(w - 1) : <<c, d>> \in msgs

\* all orders in which a Go map iteration may yield the set S
RECURSIVE Orders(_)
Orders(S) ==
    IF S = {} THEN {<<>>}
    ELSE UNION {{<<x>> \o o : o \in Orders(S \ {x})} : x \in S}

\* DailyRunModel.GetByDateRange: id of the row of window w, 0 when not found
RunOf(w) ==
    IF \E r \in 1..Len(runs) : runs[r].win = w
    THEN CHOOSE r \in 1..Len(runs) : runs[r].win = w
    ELSE 0

\* TaskModel.GetTaskByChatAndDateRange: id of the row, 0 when not found
TaskOf(c, w) ==
    IF \E k \in 1..Len(tasks) : tasks[k].chat = c /\ tasks[k].win = w
    THEN CHOOSE k \in 1..Len(tasks) : tasks[k].chat = c /\ tasks[k].win = w
    ELSE 0

\* ids of a table in creation order (Order(ByCreateTime))
RECURSIVE InCreateOrder(_)
InCreateOrder(S) ==
    IF S = {} THEN <<>>
    ELSE LET m == CHOOSE x \in S : \A y \in S : x <= y
         IN <<m>> \o InCreateOrder(S \ {m})

\* DailyRunModel.GetIncompleteRuns
GetIncompleteRunsPendingOnly ==
    InCreateOrder({r \in 1..Len(runs) : runs[r].status \in {"pending"}})
GetIncompleteRuns ==
    InCreateOrder({r \in 1..Len(runs) : runs[r].status \in {"pending", "in_progress"}})

\* TaskModel.GetPendingOrProcessingTasks
GetPendingOrProcessingTasks ==
    InCreateOrder({k \in 1..Len(tasks) : tasks[k].status \in {"pending", "processing"}})

\* runDailySummary: run.Status == dailyrun.StatusCompleted
RunIsCompletedNever(r) == FALSE
RunIsCompleted(r) == runs[r].status = "completed"

\* executeDailySummaryForRange: taskRecord.Status == task.StatusCompleted
TaskIsCompletedNever(k) == FALSE
TaskIsCompleted(k) == tasks[k].status = "completed"

\* the unique index of DailyRun on (start_time, end_time) admits a new row
RunKeyFreeAlways(w) == TRUE
RunKeyFree(w) == RunOf(w) = 0

\* the unique index of Task on (chat_id, start_time, end_time) admits a new row
TaskKeyFreeAlways(c, w) == TRUE
TaskKeyFree(c, w) == TaskOf(c, w) = 0

\* DailyRunModel.Create
NewRun(w) == [win |-> w, status |-> "in_progress", err |-> FALSE]
\* TaskModel.CreateTask
NewTask(c, w) ==
    [chat |-> c, win |-> w, status |-> "pending", summary |-> "",
     err |-> FALSE, completedAt |-> FALSE]

\* TaskModel.UpdateTaskStatus
UpdateTaskStatus(k, st, withErr) ==
    [tasks EXCEPT ![k].status = st,
                  ![k].completedAt = IF st = "completed" THEN TRUE ELSE @,
                  ![k].err = IF withErr THEN TRUE ELSE @]
\* TaskModel.MarkTaskCompleted
MarkTaskCompleted(k) == UpdateTaskStatus(k, "completed", FALSE)
\* TaskModel.MarkTaskFailed
MarkTaskFailed(k) == UpdateTaskStatus(k, "failed", TRUE)
\* TaskModel.ResetTaskToPending
ResetTaskToPending(k) ==
    [tasks EXCEPT ![k].status = "pending", ![k].completedAt = FALSE, ![k].err = FALSE]
\* TaskModel.SetSummaryContent
SetSummaryContent(k, s) == [tasks EXCEPT ![k].summary = s]
\* TaskModel.ClearSummaryContent
ClearSummaryContent(k) == [tasks EXCEPT ![k].summary = ""]
\* the caller of processTask: MarkTaskFailed(ctx) on error, else MarkTaskCompleted(ctx)
MarkProcessedNoCtx(k, e) ==
    IF e # "none" THEN MarkTaskFailed(k) ELSE MarkTaskCompleted(k)
MarkProcessed(k, e) ==
    IF ~CtxAlive THEN tasks
    ELSE IF e # "none" THEN MarkTaskFailed(k)
    ELSE MarkTaskCompleted(k)

\* DailyRunModel.MarkCompleted
MarkCompleted(r) == [runs EXCEPT ![r].status = "completed"]
\* DailyRunModel.MarkFailed
MarkFailed(r) == [runs EXCEPT ![r].status = "failed", ![r].err = TRUE]

\* the caller of executeDailySummaryForRange: MarkFailed(ctx) on error, else MarkCompleted(ctx)
MarkRunRowNoCtx(r, e) ==
    IF e # "none" THEN MarkFailed(r) ELSE MarkCompleted(r)
MarkRunRow(r, e) ==
    IF ~CtxAlive THEN runs
    ELSE IF e # "none" THEN MarkFailed(r)
    ELSE MarkCompleted(r)

\* Scheduler.cleanupMessages with MessageModel.DeleteBefore
\* ticks of the clock per day
TicksPerDay == 2

\* time.Date(year, month, day, 0, 0, 0, 0, UTC) of a time in ticks
StartOfDay(t) == (t \div TicksPerDay) * TicksPerDay

\* cutoffDate of cleanupMessages: start of the day of now - (RetentionDays+1) days
CutoffDateSameDay(now, days) == StartOfDay(now - days * TicksPerDay)
CutoffDate(now, days) == StartOfDay(now - (days + 1) * TicksPerDay)

\* MessageModel.DeleteBefore: the sent_at values left
DeleteBefore(sentAts, cutoff) == {m \in sentAts : ~(m < cutoff)}

\* the day of cutoffDate when the scheduler's clock reads today
CleanupCutoff == CutoffDate(today * TicksPerDay, CfgRetentionDays) \div TicksPerDay
CleanupMessages == {m \in msgs : ~(m[2] < CleanupCutoff)}

\* --------------------------------------------------------------- Init
\* a nil *topicsSummaryJSON
NilTopics == [nil |-> TRUE, topics |-> <<>>]

\* no retention sweep is exercised on its own
SweepIdle ==
    /\ swNow = 0
    /\ swDays = 0
    /\ swMsgs = {}
    /\ swLeft = {}
    /\ swDone = FALSE

\* the notifier is not exercised on its own
NotifyIdle ==
    /\ nMode = "private"
    /\ nUserIds = <<>>
    /\ nSegs = 0
    /\ nFails = {}
    /\ nSends = <<>>
    /\ nErr = FALSE
    /\ nDone = FALSE

\* the formatter is not exercised on its own
FmtIdle ==
    /\ fResult = [nil |-> TRUE, topics |-> <<>>]
    /\ fChatID = 0
    /\ fOut = <<>>
    /\ fDone = FALSE

\* no client is built
NcIdle ==
    /\ ncMaxTokens = 1
    /\ ncMaxInput = 0
    /\ ncDone = FALSE

\* the LLM client is not exercised
SumIdle ==
    /\ sumChunks = 0
    /\ sumCalls = <<>>
    /\ sumReplies = <<>>
    /\ sumRet = "idle"
    /\ sumOut = <<>>

LlmIdle ==
    /\ SumIdle
    /\ cMsgs = <<>>
    /\ cMax = 0
    /\ cChunks = <<>>
    /\ cDone = FALSE
    /\ accumulated = NilTopics
    /\ partial = NilTopics
    /\ prevAccumulated = NilTopics
    /\ chunkNo = 0

\* the scheduler before the first Start, with an empty store
SchedIdle ==
    /\ cfgRetryTimes = CfgRetryTimes
    /\ up = FALSE
    /\ cancelled = FALSE
    /\ today = 1
    /\ runs = <<>>
    /\ tasks = <<>>
    /\ msgs = {}
    /\ pc = [t \in Threads |-> "off"]
    /\ loc = [t \in Threads |-> InitLoc]
    /\ startTasks = <<>>
    /\ startInc = {}
    /\ pickedSince = {}

Init ==
    /\ LlmIdle
    /\ SweepIdle
    /\ NotifyIdle
    /\ FmtIdle
    /\ NcIdle
    /\ cfgRetryTimes = CfgRetryTimes
    /\ up = FALSE
    /\ cancelled = FALSE
    /\ today = 1
    /\ runs = <<>>
    /\ tasks = <<>>
    /\ msgs \in SUBSET (SpecChats \X {0})
    /\ pc = [t \in Threads |-> "off"]
    /\ loc = [t \in Threads |-> InitLoc]
    /\ startTasks = <<>>
    /\ startInc = {}
    /\ pickedSince = {}

\* ------------------------------------------------------- process level
\* Scheduler.Start: new context, cron engine started, recovery goroutine
Start ==
    /\ ~up
    /\ up' = TRUE
    /\ cancelled' = FALSE
    /\ pc' = [t \in Threads |-> IF t = "cron" THEN "idle" ELSE "rec_inc"]
    /\ loc' = [t \in Threads |-> InitLoc]
    /\ startTasks' = [k \in 1..Len(tasks) |->
                         [status |-> tasks[k].status, summary |-> tasks[k].summary]]
    /\ startInc' = {r \in 1..Len(runs) : runs[r].status \in {"pending", "in_progress"}}
    /\ pickedSince' = {}
    /\ UNCHANGED <<today, store>>
    /\ UNCHANGED fixed

\* Scheduler.Stop: s.cancel()
Stop ==
    /\ up
    /\ ~cancelled
    /\ cancelled' = TRUE
    /\ UNCHANGED <<up, today, store, pc, loc, hist>>
    /\ UNCHANGED fixed

\* Scheduler.Stop returns: cancel was called, cron.Stop() has stopped the cron
\* engine and its context is done, which waits for the running cron jobs only
StopReturn ==
    /\ up
    /\ cancelled
    /\ pc["cron"] = "idle"
    /\ pc' = [pc EXCEPT !["cron"] = "stopped"]
    /\ UNCHANGED <<env, store, loc, hist>>
    /\ UNCHANGED fixed

\* the process ends (exit of main after Stop, or a kill at any point)
Kill ==
    /\ up
    /\ up' = FALSE
    /\ pc' = [t \in Threads |-> "off"]
    /\ loc' = [t \in Threads |-> InitLoc]
    /\ UNCHANGED <<cancelled, today, store, hist>>
    /\ UNCHANGED fixed

\* a time jump that puts the first window at the staleness cutoff
TimeJumps == {StaleDays - 1}

\* time passes while the process is down
Tick ==
    /\ ~up
    /\ \E d \in TimeJumps :
        /\ today + d <= MaxDay
        /\ today' = today + d
    /\ UNCHANGED <<up, cancelled, store, pc, loc, hist>>
    /\ UNCHANGED fixed

\* ------------------------------------------------------------ helpers
\* where executeDailySummaryForRange returns to
ExecRetPc(t) ==
    CASE loc[t].execRet = "cron" -> "run_mark"
      [] loc[t].execRet = "rec1" -> "rec1_mark"
      [] OTHER -> "rec2_mark"

\* the locals of t once executeDailySummaryForRange has returned error e
Returned(t, e) ==
    [loc EXCEPT ![t].err = e, ![t].attempt = 0, ![t].chatIDs = <<>>,
                ![t].toProcess = <<>>, ![t].cur = 0, ![t].summary = "",
                ![t].sent = FALSE, ![t].ptRet = "none", ![t].sendRet = "none",
                ![t].successCount = 0, ![t].failCount = 0]

\* return of executeDailySummaryForRange with error e
ExecReturn(t, e) ==
    /\ pc' = [pc EXCEPT ![t] = ExecRetPc(t)]
    /\ loc' = Returned(t, e)

\* cleanupMessages followed by return nil: DeleteBefore deletes (ok) or fails,
\* the failure is logged and swallowed; sweeps counts the invocations
CleanupThenReturnError(t) ==
    \E ok \in BOOLEAN :
        /\ msgs' = IF ok /\ CtxAlive THEN CleanupMessages ELSE msgs
        /\ pc' = [pc EXCEPT ![t] = ExecRetPc(t)]
        /\ loc' = [Returned(t, IF ok THEN "none" ELSE "failed")
                      EXCEPT ![t].sweeps = @ + 1]
CleanupThenReturn(t) ==
    \E ok \in BOOLEAN :
        /\ msgs' = IF ok /\ CtxAlive THEN CleanupMessages ELSE msgs
        /\ pc' = [pc EXCEPT ![t] = ExecRetPc(t)]
        /\ loc' = [Returned(t, "none") EXCEPT ![t].sweeps = @ + 1]

\* entry of executeDailySummaryForRange for window w, run row r
ExecEnter(t, w, r, ret, l) ==
    [l EXCEPT !.win = w, !.runId = r, !.execRet = ret, !.attempt = 1]

\* return of processTask with error e
PtReturn(t, e) ==
    /\ pc' = [pc EXCEPT ![t] = IF loc[t].ptRet = "exec" THEN "ex_mark" ELSE "rpt_mark"]
    /\ loc' = [loc EXCEPT ![t].err = e, ![t].ptRet = "none", ![t].sendRet = "none"]

\* return of sendTaskNotification with (sent, err); att is the loop variable
SendReturn(t, snt, e, att) ==
    /\ pc' = [pc EXCEPT ![t] = IF loc[t].sendRet = "pt" THEN "pt_clear" ELSE "rpt_sent"]
    /\ loc' = [loc EXCEPT ![t].sent = snt, ![t].err = e, ![t].attempt = att]

\* sendTaskNotification after its last attempt failed: (false, nil)
SendExhausted(t) == SendReturn(t, FALSE, "none", NotifyRetryTimes + 1)

\* the chat-id query loop goes on: attempt < retryTimes
QueryRetryLeftOneMore(attempt) == attempt <= RetryTimes
QueryRetryLeft(attempt) == attempt < RetryTimes

\* the summarization loop goes on: attempt < retryTimes
GenRetryLeftOneMore(attempt) == attempt <= RetryTimes
GenRetryLeft(attempt) == attempt < RetryTimes

\* the delivery loop goes on: attempt < notifyRetryTimes
NotifyRetryLeftAsConfigured(attempt) == attempt < RetryTimes
NotifyRetryLeft(attempt) == attempt < NotifyRetryTimes

\* processTask with an empty summary and no error: return nil
EmptySummaryDelivered(t) ==
    /\ pc' = [pc EXCEPT ![t] = "pt_set"]
    /\ loc' = [loc EXCEPT ![t].summary = "", ![t].attempt = 0]
EmptySummaryReturn(t) == PtReturn(t, "none")

AfterCreatePc(rest, todo) ==
    IF rest # <<>> THEN "ex_goc" ELSE IF todo # <<>> THEN "ex_proc" ELSE "ex_final"
\* the process loop: the next task of tasksToProcess, or the end of the run
AfterTaskPcAbort(todo) == "ex_final"
AfterTaskPc(todo) == IF todo # <<>> THEN "ex_proc" ELSE "ex_final"

\* ------------------------------------------------------ runDailySummary
\* cron fires: ctx check and window computation
CronFire ==
    /\ up
    /\ pc["cron"] = "idle"
    /\ IF CtxDone
       THEN UNCHANGED <<pc, loc>>
       ELSE /\ loc' = [loc EXCEPT !["cron"] = [InitLoc EXCEPT !.win = TodayWin]]
            /\ pc' = [pc EXCEPT !["cron"] = "run_goc"]
    /\ UNCHANGED <<env, store, hist>>
    /\ UNCHANGED fixed

\* DailyRunModel.GetOrCreate, the query; a completed row ends the fire
RunGetOrCreate ==
    /\ up
    /\ pc["cron"] = "run_goc"
    /\ LET w == loc["cron"].win
           r == RunOf(w)
       IN IF ~CtxAlive
          THEN /\ pc' = [pc EXCEPT !["cron"] = "idle"]
               /\ loc' = [loc EXCEPT !["cron"] = InitLoc]
          ELSE IF r = 0
          THEN /\ pc' = [pc EXCEPT !["cron"] = "run_create"]
               /\ UNCHANGED loc
          ELSE IF RunIsCompleted(r)
          THEN /\ pc' = [pc EXCEPT !["cron"] = "run_skip"]
               /\ loc' = [loc EXCEPT !["cron"].runId = r]
          ELSE /\ pc' = [pc EXCEPT !["cron"] = "ex_query"]
               /\ loc' = [loc EXCEPT !["cron"] = ExecEnter("cron", w, r, "cron", @)]
    /\ UNCHANGED <<env, store, hist>>
    /\ UNCHANGED fixed

\* DailyRunModel.GetOrCreate, the Create after a not-found
RunCreate ==
    /\ up
    /\ pc["cron"] = "run_create"
    /\ LET w == loc["cron"].win
       IN IF CtxAlive /\ RunKeyFree(w)
          THEN /\ runs' = Append(runs, NewRun(w))
               /\ pc' = [pc EXCEPT !["cron"] = "ex_query"]
               /\ loc' = [loc EXCEPT !["cron"] = ExecEnter("cron", w, Len(runs) + 1, "cron", @)]
          ELSE /\ pc' = [pc EXCEPT !["cron"] = "idle"]
               /\ loc' = [loc EXCEPT !["cron"] = InitLoc]
               /\ UNCHANGED runs
    /\ UNCHANGED <<env, tasks, msgs, hist>>
    /\ UNCHANGED fixed

\* the run row is already completed: log and return
RunSkip ==
    /\ up
    /\ pc["cron"] = "run_skip"
    /\ pc' = [pc EXCEPT !["cron"] = "idle"]
    /\ loc' = [loc EXCEPT !["cron"] = InitLoc]
    /\ UNCHANGED <<env, store, hist>>
    /\ UNCHANGED fixed

\* MarkFailed / MarkCompleted after executeDailySummaryForRange returned
MarkRun(t, nextPc) ==
    /\ runs' = MarkRunRow(loc[t].runId, loc[t].err)
    /\ loc' = [loc EXCEPT ![t].err = "none", ![t].win = 0, ![t].runId = 0,
                          ![t].execRet = "none", ![t].sweeps = 0]
    /\ pc' = [pc EXCEPT ![t] = nextPc]
    /\ UNCHANGED <<env, tasks, msgs, hist>>

RunMark ==
    /\ up
    /\ pc["cron"] = "run_mark"
    /\ MarkRun("cron", "idle")
    /\ UNCHANGED fixed

\* ------------------------------------------ executeDailySummaryForRange
\* one attempt of the chat-id query, with the ctx checks around it
ExQuery(t) ==
    /\ up
    /\ pc[t] = "ex_query"
    /\ IF CtxDone
       THEN ExecReturn(t, "cancelled")
       ELSE \/ \E order \in Orders(ChatIDsInRange(loc[t].win)) :
                 /\ pc' = [pc EXCEPT ![t] = IF order = <<>> THEN "ex_empty" ELSE "ex_goc"]
                 /\ loc' = [loc EXCEPT ![t].chatIDs = order, ![t].attempt = 0]
            \/ IF QueryRetryLeft(loc[t].attempt)
               THEN /\ pc' = [pc EXCEPT ![t] = "ex_qsleep"]
                    /\ UNCHANGED loc
               ELSE ExecReturn(t, "failed")
    /\ UNCHANGED <<env, store, hist>>
    /\ UNCHANGED fixed

\* the sleep between two attempts of the chat-id query
ExQuerySleep(t) ==
    /\ up
    /\ pc[t] = "ex_qsleep"
    /\ \/ /\ pc' = [pc EXCEPT ![t] = "ex_query"]
          /\ loc' = [loc EXCEPT ![t].attempt = @ + 1]
       \/ /\ CtxDone
          /\ ExecReturn(t, "cancelled")
    /\ UNCHANGED <<env, store, hist>>
    /\ UNCHANGED fixed

\* empty window: cleanupMessages and return nil
ExEmptyNoSweep(t) ==
    /\ up
    /\ pc[t] = "ex_empty"
    /\ ExecReturn(t, "none")
    /\ UNCHANGED <<env, store, hist>>
    /\ UNCHANGED fixed
ExEmpty(t) ==
    /\ up
    /\ pc[t] = "ex_empty"
    /\ CleanupThenReturn(t)
    /\ UNCHANGED <<env, runs, tasks, hist>>
    /\ UNCHANGED fixed

\* TaskModel.GetOrCreateTask, the query, and the completed check
ExGetTask(t) ==
    /\ up
    /\ pc[t] = "ex_goc"
    /\ LET c == Head(loc[t].chatIDs)
           rest == Tail(loc[t].chatIDs)
           k == TaskOf(c, loc[t].win)
       IN IF CtxDone
          THEN ExecReturn(t, "cancelled")
          ELSE IF k = 0
          THEN /\ pc' = [pc EXCEPT ![t] = "ex_tcreate"]
               /\ UNCHANGED loc
          ELSE IF TaskIsCompleted(k)
          THEN /\ pc' = [pc EXCEPT ![t] = AfterCreatePc(rest, loc[t].toProcess)]
               /\ loc' = [loc EXCEPT ![t].chatIDs = rest, ![t].successCount = @ + 1]
          ELSE /\ pc' = [pc EXCEPT ![t] = AfterCreatePc(rest, Append(loc[t].toProcess, k))]
               /\ loc' = [loc EXCEPT ![t].chatIDs = rest,
                                     ![t].toProcess = Append(@, k)]
    /\ UNCHANGED <<env, store, hist>>
    /\ UNCHANGED fixed

\* TaskModel.GetOrCreateTask, the CreateTask after a not-found
ExCreateTask(t) ==
    /\ up
    /\ pc[t] = "ex_tcreate"
    /\ LET c == Head(loc[t].chatIDs)
           rest == Tail(loc[t].chatIDs)
       IN IF CtxAlive /\ TaskKeyFree(c, loc[t].win)
          THEN /\ tasks' = Append(tasks, NewTask(c, loc[t].win))
               /\ pc' = [pc EXCEPT ![t] = AfterCreatePc(rest, Append(loc[t].toProcess, Len(tasks) + 1))]
               /\ loc' = [loc EXCEPT ![t].chatIDs = rest,
                                     ![t].toProcess = Append(@, Len(tasks) + 1)]
          ELSE /\ pc' = [pc EXCEPT ![t] = AfterCreatePc(rest, loc[t].toProcess)]
               /\ loc' = [loc EXCEPT ![t].chatIDs = rest, ![t].failCount = @ + 1]
               /\ UNCHANGED tasks
    /\ UNCHANGED <<env, runs, msgs, hist>>
    /\ UNCHANGED fixed

\* next task of tasksToProcess: ctx check, UpdateTaskStatus(processing)
ExPick(t) ==
    /\ up
    /\ pc[t] = "ex_proc"
    /\ LET k == Head(loc[t].toProcess)
       IN IF CtxDone
          THEN /\ ExecReturn(t, "cancelled")
               /\ UNCHANGED <<tasks, pickedSince>>
          ELSE /\ tasks' = UpdateTaskStatus(k, "processing", FALSE)
               /\ pickedSince' = pickedSince \cup {k}
               /\ pc' = [pc EXCEPT ![t] = "pt_gen"]
               /\ loc' = [loc EXCEPT ![t].toProcess = Tail(@), ![t].cur = k,
                                     ![t].attempt = 1, ![t].ptRet = "exec",
                                     ![t].err = "none"]
    /\ UNCHANGED <<env, runs, msgs, startTasks, startInc>>
    /\ UNCHANGED fixed

\* after processTask: MarkTaskFailed on error, MarkTaskCompleted otherwise
ExMark(t) ==
    /\ up
    /\ pc[t] = "ex_mark"
    /\ tasks' = MarkProcessed(loc[t].cur, loc[t].err)
    /\ loc' = [loc EXCEPT ![t].failCount = IF loc[t].err # "none" THEN @ + 1 ELSE @,
                          ![t].successCount = IF loc[t].err = "none" /\ CtxAlive THEN @ + 1 ELSE @,
                          ![t].attempt = 0, ![t].summary = "", ![t].sent = FALSE]
    /\ pc' = [pc EXCEPT ![t] = AfterTaskPc(loc[t].toProcess)]
    /\ UNCHANGED <<env, runs, msgs, hist>>
    /\ UNCHANGED fixed

\* end of the run: ctx check, cleanupMessages, return nil
ExFinal(t) ==
    /\ up
    /\ pc[t] = "ex_final"
    /\ IF CtxDone
       THEN /\ ExecReturn(t, "cancelled")
            /\ UNCHANGED msgs
       ELSE CleanupThenReturn(t)
    /\ UNCHANGED <<env, runs, tasks, hist>>
    /\ UNCHANGED fixed

\* --------------------------------------------------------- processTask
\* one attempt of generateSummaryForTask: ctx check, then SummarizeRange reads
\* the messages (none: nil result, processTask returns nil) and calls the LLM,
\* which returns an error, a result that renders to "", or a summary
PtGen(t) ==
    /\ up
    /\ pc[t] = "pt_gen"
    /\ LET k == loc[t].cur
       IN IF CtxDone
          THEN PtReturn(t, "cancelled")
          ELSE IF ~HasMessages(tasks[k].chat, tasks[k].win)
          THEN EmptySummaryReturn(t)
          ELSE \/ IF GenRetryLeft(loc[t].attempt)
                  THEN /\ pc' = [pc EXCEPT ![t] = "pt_sleep"]
                       /\ UNCHANGED loc
                  ELSE PtReturn(t, "failed")
               \/ EmptySummaryReturn(t)
               \/ \E s \in Summaries :
                    /\ pc' = [pc EXCEPT ![t] = "pt_set"]
                    /\ loc' = [loc EXCEPT ![t].summary = s, ![t].attempt = 0]
    /\ UNCHANGED <<env, store, hist>>
    /\ UNCHANGED fixed

\* the sleep between two summarization attempts
PtSleep(t) ==
    /\ up
    /\ pc[t] = "pt_sleep"
    /\ \/ /\ pc' = [pc EXCEPT ![t] = "pt_gen"]
          /\ loc' = [loc EXCEPT ![t].attempt = @ + 1]
       \/ /\ CtxDone
          /\ PtReturn(t, "cancelled")
    /\ UNCHANGED <<env, store, hist>>
    /\ UNCHANGED fixed

\* SetSummaryContent before the first delivery; a failure is only logged
PtSet(t) ==
    /\ up
    /\ pc[t] = "pt_set"
    /\ \E ok \in BOOLEAN :
         tasks' = IF ok /\ CtxAlive
                  THEN SetSummaryContent(loc[t].cur, loc[t].summary)
                  ELSE tasks
    /\ pc' = [pc EXCEPT ![t] = "sn_try"]
    /\ loc' = [loc EXCEPT ![t].attempt = 1, ![t].sendRet = "pt"]
    /\ UNCHANGED <<env, runs, msgs, hist>>
    /\ UNCHANGED fixed

\* one attempt of sendTaskNotification: ctx check, then Notify
SnTry(t) ==
    /\ up
    /\ pc[t] = "sn_try"
    /\ IF CtxDone
       THEN SendReturn(t, FALSE, "cancelled", loc[t].attempt)
       ELSE \/ SendReturn(t, TRUE, "none", loc[t].attempt)
            \/ IF NotifyRetryLeft(loc[t].attempt)
               THEN /\ pc' = [pc EXCEPT ![t] = "sn_sleep"]
                    /\ UNCHANGED loc
               ELSE SendExhausted(t)
    /\ UNCHANGED <<env, store, hist>>
    /\ UNCHANGED fixed

\* the sleep between two delivery attempts
SnSleep(t) ==
    /\ up
    /\ pc[t] = "sn_sleep"
    /\ \/ /\ pc' = [pc EXCEPT ![t] = "sn_try"]
          /\ loc' = [loc EXCEPT ![t].attempt = @ + 1]
       \/ /\ CtxDone
          /\ SendReturn(t, FALSE, "cancelled", loc[t].attempt)
    /\ UNCHANGED <<env, store, hist>>
    /\ UNCHANGED fixed

\* processTask after sendTaskNotification: ClearSummaryContent when sent
PtClear(t) ==
    /\ up
    /\ pc[t] = "pt_clear"
    /\ tasks' = IF loc[t].err = "none" /\ loc[t].sent /\ CtxAlive
                THEN ClearSummaryContent(loc[t].cur)
                ELSE tasks
    /\ PtReturn(t, loc[t].err)
    /\ UNCHANGED <<env, runs, msgs, hist>>
    /\ UNCHANGED fixed

\* ------------------------------------------------- recoverDailySummary
\* step 1: GetIncompleteRuns
RecIncomplete ==
    /\ up
    /\ pc["rec"] = "rec_inc"
    /\ LET inc == IF CtxAlive THEN GetIncompleteRuns ELSE <<>>
       IN /\ loc' = [loc EXCEPT !["rec"].incRuns = inc]
          /\ pc' = [pc EXCEPT !["rec"] = IF inc = <<>> THEN "rec2_get" ELSE "rec1_loop"]
    /\ UNCHANGED <<env, store, hist>>
    /\ UNCHANGED fixed

\* step 1: next incomplete run, ctx check, re-execute its window
Rec1Loop ==
    /\ up
    /\ pc["rec"] = "rec1_loop"
    /\ LET r == Head(loc["rec"].incRuns)
       IN IF CtxDone
          THEN /\ pc' = [pc EXCEPT !["rec"] = "aborted"]
               /\ loc' = [loc EXCEPT !["rec"] = InitLoc]
          ELSE /\ pc' = [pc EXCEPT !["rec"] = "ex_query"]
               /\ loc' = [loc EXCEPT !["rec"] =
                            [ExecEnter("rec", runs[r].win, r, "rec1", @) EXCEPT !.incRuns = Tail(@)]]
    /\ UNCHANGED <<env, store, hist>>
    /\ UNCHANGED fixed

Rec1Mark ==
    /\ up
    /\ pc["rec"] = "rec1_mark"
    /\ MarkRun("rec", IF loc["rec"].incRuns = <<>> THEN "rec2_get" ELSE "rec1_loop")
    /\ UNCHANGED fixed

\* step 2: GetByDateRange for today's window
Rec2Get ==
    /\ up
    /\ pc["rec"] = "rec2_get"
    /\ IF CtxAlive /\ RunOf(TodayWin) = 0
       THEN /\ pc' = [pc EXCEPT !["rec"] = "rec2_create"]
            /\ loc' = [loc EXCEPT !["rec"].win = TodayWin]
       ELSE /\ pc' = [pc EXCEPT !["rec"] = "rpt_list"]
            /\ UNCHANGED loc
    /\ UNCHANGED <<env, store, hist>>
    /\ UNCHANGED fixed

\* step 2: Create the missed run and execute it
Rec2Create ==
    /\ up
    /\ pc["rec"] = "rec2_create"
    /\ LET w == loc["rec"].win
       IN IF CtxAlive /\ RunKeyFree(w)
          THEN /\ runs' = Append(runs, NewRun(w))
               /\ pc' = [pc EXCEPT !["rec"] = "ex_query"]
               /\ loc' = [loc EXCEPT !["rec"] = ExecEnter("rec", w, Len(runs) + 1, "rec2", @)]
          ELSE /\ pc' = [pc EXCEPT !["rec"] = "rpt_list"]
               /\ loc' = [loc EXCEPT !["rec"].win = 0]
               /\ UNCHANGED runs
    /\ UNCHANGED <<env, tasks, msgs, hist>>
    /\ UNCHANGED fixed

Rec2Mark ==
    /\ up
    /\ pc["rec"] = "rec2_mark"
    /\ MarkRun("rec", "rpt_list")
    /\ UNCHANGED fixed

\* ------------------------------------------------- recoverPendingTasks
\* GetPendingOrProcessingTasks and the cutoff; the rows are snapshots
RptList ==
    /\ up
    /\ pc["rec"] = "rpt_list"
    /\ LET ids == IF CtxAlive THEN GetPendingOrProcessingTasks ELSE <<>>
           snap == [n \in 1..Len(ids) |-> [id |-> ids[n], summary |-> tasks[ids[n]].summary]]
       IN IF ids = <<>>
          THEN /\ pc' = [pc EXCEPT !["rec"] = IF CtxAlive THEN "done" ELSE "aborted"]
               /\ loc' = [loc EXCEPT !["rec"] = InitLoc]
          ELSE \E sm \in {today - StaleDays - 1, today - StaleDays} :
               /\ pc' = [pc EXCEPT !["rec"] = "rpt_loop"]
               /\ loc' = [loc EXCEPT !["rec"].pend = snap, !["rec"].staleMax = sm]
    /\ UNCHANGED <<env, store, hist>>
    /\ UNCHANGED fixed

RptEnd(res) ==
    /\ pc' = [pc EXCEPT !["rec"] = res]
    /\ loc' = [loc EXCEPT !["rec"] = InitLoc]

\* end of one iteration of the loop over the listed tasks
RptNextStop(rest) == RptEnd("done")
RptNext(rest) ==
    IF rest = <<>>
    THEN RptEnd("done")
    ELSE /\ pc' = [pc EXCEPT !["rec"] = "rpt_loop"]
         /\ loc' = [loc EXCEPT !["rec"].pend = rest, !["rec"].cur = 0,
                               !["rec"].summary = "", !["rec"].sent = FALSE,
                               !["rec"].err = "none", !["rec"].attempt = 0]

\* t.StartTime.Before(cutoffTime) for task row k, sm the last day whose
\* start lies before the cutoff now - 7 days
IsStaleNever(k, sm) == FALSE
IsStale(k, sm) == WinStart(tasks[k].win) <= sm

\* next listed task: ctx check, staleness check, ResetTaskToPending
RptReset ==
    /\ up
    /\ pc["rec"] = "rpt_loop"
    /\ LET p == Head(loc["rec"].pend)
           rest == Tail(loc["rec"].pend)
       IN IF CtxDone
          THEN /\ RptEnd("aborted")
               /\ UNCHANGED tasks
          ELSE IF IsStale(p.id, loc["rec"].staleMax)
          THEN /\ RptNext(rest)
               /\ UNCHANGED tasks
          ELSE /\ tasks' = ResetTaskToPending(p.id)
               /\ pc' = [pc EXCEPT !["rec"] = "rpt_upd"]
               /\ loc' = [loc EXCEPT !["rec"].pend = rest, !["rec"].cur = p.id,
                                     !["rec"].summary = p.summary]
    /\ UNCHANGED <<env, runs, msgs, hist>>
    /\ UNCHANGED fixed

\* UpdateTaskStatus(processing), then delivery only or the whole processTask
RptUpdate ==
    /\ up
    /\ pc["rec"] = "rpt_upd"
    /\ IF ~CtxAlive
       THEN /\ RptNext(loc["rec"].pend)
            /\ UNCHANGED <<tasks, pickedSince>>
       ELSE /\ tasks' = UpdateTaskStatus(loc["rec"].cur, "processing", FALSE)
            /\ pickedSince' = pickedSince \cup {loc["rec"].cur}
            /\ IF loc["rec"].summary # ""
               THEN /\ pc' = [pc EXCEPT !["rec"] = "sn_try"]
                    /\ loc' = [loc EXCEPT !["rec"].attempt = 1, !["rec"].sendRet = "rpt"]
               ELSE /\ pc' = [pc EXCEPT !["rec"] = "pt_gen"]
                    /\ loc' = [loc EXCEPT !["rec"].attempt = 1, !["rec"].ptRet = "rpt"]
    /\ UNCHANGED <<env, runs, msgs, startTasks, startInc>>
    /\ UNCHANGED fixed

\* delivery-only branch after sendTaskNotification
RptSent ==
    /\ up
    /\ pc["rec"] = "rpt_sent"
    /\ LET k == loc["rec"].cur
       IN IF loc["rec"].err # "none"
          THEN /\ tasks' = IF CtxAlive THEN MarkTaskFailed(k) ELSE tasks
               /\ RptNext(loc["rec"].pend)
          ELSE IF loc["rec"].sent
          THEN /\ tasks' = IF CtxAlive THEN ClearSummaryContent(k) ELSE tasks
               /\ pc' = [pc EXCEPT !["rec"] = "rpt_cmark"]
               /\ UNCHANGED loc
          ELSE /\ tasks' = IF CtxAlive THEN MarkTaskCompleted(k) ELSE tasks
               /\ RptNext(loc["rec"].pend)
    /\ UNCHANGED <<env, runs, msgs, hist>>
    /\ UNCHANGED fixed

\* delivery-only branch: MarkTaskCompleted after ClearSummaryContent
RptCompleteMark ==
    /\ up
    /\ pc["rec"] = "rpt_cmark"
    /\ tasks' = IF CtxAlive THEN MarkTaskCompleted(loc["rec"].cur) ELSE tasks
    /\ RptNext(loc["rec"].pend)
    /\ UNCHANGED <<env, runs, msgs, hist>>
    /\ UNCHANGED fixed

\* after processTask in recoverPendingTasks
RptMark ==
    /\ up
    /\ pc["rec"] = "rpt_mark"
    /\ tasks' = MarkProcessed(loc["rec"].cur, loc["rec"].err)
    /\ RptNext(loc["rec"].pend)
    /\ UNCHANGED <<env, runs, msgs, hist>>
    /\ UNCHANGED fixed

\* ------------------------------------------------------------ steps
\* pcs at which a thread is between picking a task (status processing) and
\* the status write that ends its processing
ProcPcs == {"pt_gen", "pt_sleep", "pt_set", "sn_try", "sn_sleep", "pt_clear",
            "ex_mark", "rpt_sent", "rpt_cmark", "rpt_mark"}

\* thread t is processing task k
Processing(t, k) == pc[t] \in ProcPcs /\ loc[t].cur = k

\* the step in which thread t calls the LLM (SummarizeRange found messages)
LlmCall(t) ==
    /\ up'
    /\ pc[t] = "pt_gen"
    /\ pc'[t] # "pt_gen"
    /\ ~cancelled
    /\ HasMessages(tasks[loc[t].cur].chat, tasks[loc[t].cur].win)

\* the step in which thread t calls notifier.Notify
NotifyCall(t) ==
    /\ up'
    /\ pc[t] = "sn_try"
    /\ pc'[t] # "sn_try"
    /\ ~cancelled

\* the delivery loop of thread t ran out of attempts for a rendered summary
DeliveryExhausted(t) ==
    /\ loc[t].summary # ""
    /\ loc[t].attempt = NotifyRetryTimes + 1

\* a window that no reading of the cutoff now-7d calls stale
NonStale(w) == WinStart(w) > today - StaleDays

\* ------------------------------------------------------------ claims
\* C1: a task that was processing with summary_content persisted when the
\* process started (killed between Phase A and Phase B) is never handed to
\* the LLM summarizer again by the recovery of that start.
C1_NoLlmAfterPhaseA ==
    [][LlmCall("rec") =>
            ~(/\ loc["rec"].cur \in 1..Len(startTasks)
              /\ startTasks[loc["rec"].cur].status = "processing"
              /\ startTasks[loc["rec"].cur].summary # "")]_vars

\* C2: when an uncancelled recovery has finished, every task that was
\* completed with a retained summary_content at Start has been picked up
\* for re-delivery.
C2_RetainedSummaryRedelivered ==
    (pc["rec"] = "done" /\ ~cancelled) =>
        \A k \in 1..Len(startTasks) :
            (startTasks[k].status = "completed" /\ startTasks[k].summary # "")
                => k \in pickedSince

\* C3: after every delivery attempt of processTask failed, processTask
\* returns nil, the caller marks the task completed, and the stored
\* summary_content is the rendered summary.
C3_ExhaustedDeliveryKeepsSummary ==
    [][\A t \in Threads :
         (/\ up'
          /\ pc[t] \in {"ex_mark", "rpt_mark"}
          /\ pc'[t] # pc[t]
          /\ DeliveryExhausted(t)
          /\ ~cancelled)
         => /\ loc[t].err = "none"
            /\ tasks'[loc[t].cur].status = "completed"
            /\ tasks'[loc[t].cur].summary = loc[t].summary]_vars

\* C4: processTask never calls the notifier for a task whose stored
\* summary_content is empty.
C4_SummaryDurableBeforeNotify ==
    [][\A t \in Threads :
         (NotifyCall(t) /\ loc[t].sendRet = "pt")
            => tasks[loc[t].cur].summary # ""]_vars

\* C5: the cron worker and the recovery goroutine never process the same
\* task at once.
C5_OneWorkerPerTask ==
    \A k \in 1..Len(tasks) : ~(Processing("cron", k) /\ Processing("rec", k))

\* C6: once the cancel signal fired, a thread that is processing a task
\* does not change that task's status: a task that is processing stays
\* processing, it is marked neither failed nor completed.
C6_CancelledTaskStaysProcessing ==
    [][\A t \in Threads :
         (/\ up'
          /\ cancelled
          /\ pc[t] \in ProcPcs
          /\ tasks[loc[t].cur].status = "processing")
         => tasks'[loc[t].cur].status = "processing"]_vars

\* C6 witness: a cancelled processTask has returned to the daily run, the
\* status write after it is over, and the task is still processing
C6_Witness ==
    \E t \in Threads :
        /\ cancelled
        /\ pc[t] \in {"ex_proc", "ex_final"}
        /\ loc[t].err = "cancelled"
        /\ loc[t].cur # 0
        /\ tasks[loc[t].cur].status = "processing"

\* pcs at which a thread holds the result of executeDailySummaryForRange
RunMarkPcs == {"run_mark", "rec1_mark", "rec2_mark"}

\* C7 as stated: the row of a daily run aborted by the cancel signal is
\* in_progress.
C7_AbortedRunInProgress ==
    \A t \in Threads :
        (pc[t] \in RunMarkPcs /\ loc[t].err = "cancelled")
            => runs[loc[t].runId].status = "in_progress"

\* C7 amended: once the cancel signal fired no run row changes its status;
\* the aborted run keeps the status it had (in_progress stays in_progress,
\* a re-fired failed run stays failed).
C7_AbortLeavesRunStatus ==
    [][(up' /\ cancelled) =>
          /\ Len(runs') = Len(runs)
          /\ \A r \in 1..Len(runs) : runs'[r].status = runs[r].status]_vars

\* C7 witness: a run aborted by cancel is about to be marked and its row is
\* in_progress
C7_Witness ==
    \E t \in Threads :
        /\ pc[t] \in RunMarkPcs
        /\ loc[t].err = "cancelled"
        /\ runs[loc[t].runId].status = "in_progress"

C9_CompletedRunSkipped ==
    [][(/\ up'
        /\ pc["cron"] \in {"run_goc", "run_skip"}
        /\ pc'["cron"] # pc["cron"]
        /\ RunOf(loc["cron"].win) # 0
        /\ runs[RunOf(loc["cron"].win)].status = "completed")
       => /\ pc'["cron"] \in {"run_skip", "idle"}
          /\ store' = store]_vars

\* C9 witness: the cron worker found its run completed
C9_Witness == pc["cron"] = "run_skip"

\* C10: a daily run that finds a task of its window completed counts it as a
\* success, does not put it in the list to process and leaves it unchanged.
C10_CompletedTaskCounted ==
    [][\A t \in Threads :
         (/\ up'
          /\ pc[t] = "ex_goc"
          /\ loc'[t].chatIDs # loc[t].chatIDs
          /\ ~cancelled
          /\ TaskOf(Head(loc[t].chatIDs), loc[t].win) # 0
          /\ tasks[TaskOf(Head(loc[t].chatIDs), loc[t].win)].status = "completed")
         => /\ loc'[t].toProcess = loc[t].toProcess
            /\ loc'[t].successCount = loc[t].successCount + 1
            /\ store' = store]_vars

\* C10 witness: a daily run reached its end having counted a success for a
\* task that nobody picked up since the process started
C10_Witness ==
    \E t \in Threads :
        /\ pc[t] = "ex_final"
        /\ loc[t].successCount >= 1
        /\ pickedSince = {}

\* C11: in an empty window (the chat-id query returned no chat) the run does
\* the retention sweep once (DeleteBefore deletes everything older than the
\* cutoff, or fails and deletes nothing), creates and changes no task, returns nil
\* without passing through the LLM or the notifier, and its caller marks the
\* run completed; messages are deleted by no other step than a sweep.
C11_EmptyWindow ==
    [][/\ \A t \in Threads :
            (up' /\ ~cancelled /\ pc[t] = "ex_empty" /\ pc'[t] # "ex_empty")
            => /\ msgs' \in {CleanupMessages, msgs}
               /\ loc'[t].sweeps = 1
               /\ tasks' = tasks
               /\ runs' = runs
               /\ pc'[t] = ExecRetPc(t)
               /\ loc'[t].err = "none"
               /\ loc'[t].runId = loc[t].runId
       /\ \A t \in Threads :
            (up' /\ ~cancelled /\ pc[t] \in RunMarkPcs /\ pc'[t] # pc[t]
                 /\ loc[t].err = "none")
            => /\ runs'[loc[t].runId].status = "completed"
               /\ tasks' = tasks
               /\ msgs' = msgs
       /\ (msgs' # msgs) =>
              \E t \in Threads : pc[t] \in {"ex_empty", "ex_final"} /\ pc'[t] # pc[t]]_vars

\* C11 witness: a run is completed and no task was ever created
C11_Witness ==
    /\ \E r \in 1..Len(runs) : runs[r].status = "completed"
    /\ Len(tasks) = 0

\* C12: there is at most one DailyRun row per window, in every interleaving
\* of cron fires and recovery steps.
C12_OneRunPerWindow ==
    \A r1, r2 \in 1..Len(runs) : runs[r1].win = runs[r2].win => r1 = r2

\* C12 witness: the cron worker found no row for its window and is at its
\* Create, while the recovery goroutine has created the row in between
C12_Witness ==
    /\ pc["cron"] = "run_create"
    /\ RunOf(loc["cron"].win) # 0

Next ==
    \/ Start
    \/ Stop
    \/ StopReturn
    \/ Kill
    \/ Tick
    \/ CronFire
    \/ RunGetOrCreate
    \/ RunCreate
    \/ RunSkip
    \/ RunMark
    \/ \E t \in Threads : ExQuery(t)
    \/ \E t \in Threads : ExQuerySleep(t)
    \/ \E t \in Threads : ExEmpty(t)
    \/ \E t \in Threads : ExGetTask(t)
    \/ \E t \in Threads : ExCreateTask(t)
    \/ \E t \in Threads : ExPick(t)
    \/ \E t \in Threads : ExMark(t)
    \/ \E t \in Threads : ExFinal(t)
    \/ \E t \in Threads : PtGen(t)
    \/ \E t \in Threads : PtSleep(t)
    \/ \E t \in Threads : PtSet(t)
    \/ \E t \in Threads : SnTry(t)
    \/ \E t \in Threads : SnSleep(t)
    \/ \E t \in Threads : PtClear(t)
    \/ RecIncomplete
    \/ Rec1Loop
    \/ Rec1Mark
    \/ Rec2Get
    \/ Rec2Create
    \/ Rec2Mark
    \/ RptList
    \/ RptReset
    \/ RptUpdate
    \/ RptSent
    \/ RptCompleteMark
    \/ RptMark

Spec == Init /\ [][Next]_vars

\* ------------------------------------------- the cron worker on its own
\* the process has been up since the day before: recovery found nothing,
\* created and completed the run of the empty window of that day; since then
\* the chats have posted and the day has changed.  One older message may
\* remain that the sweep of the day before had to keep and today's must delete
SoloDay == CfgRetentionDays + 3
SoloInit ==
    /\ LlmIdle
    /\ SweepIdle
    /\ NotifyIdle
    /\ FmtIdle
    /\ NcIdle
    /\ cfgRetryTimes \in 0..CfgRetryTimes
    /\ up = TRUE
    /\ cancelled = FALSE
    /\ today = SoloDay
    /\ runs = <<[win |-> SoloDay - 1, status |-> "completed", err |-> FALSE]>>
    /\ tasks = <<>>
    /\ \E new \in SUBSET (Chats \X {SoloDay - 1}) :
       \E old \in SUBSET {<<1, SoloDay - CfgRetentionDays - 2>>} :
           msgs = new \cup old
    /\ pc = [t \in Threads |-> IF t = "cron" THEN "idle" ELSE "done"]
    /\ loc = [t \in Threads |-> InitLoc]
    /\ startTasks = <<>>
    /\ startInc = {}
    /\ pickedSince = {}

SoloNext ==
    \/ Stop
    \/ CronFire
    \/ RunGetOrCreate
    \/ RunCreate
    \/ RunSkip
    \/ RunMark
    \/ ExQuery("cron")
    \/ ExQuerySleep("cron")
    \/ ExEmpty("cron")
    \/ ExGetTask("cron")
    \/ ExCreateTask("cron")
    \/ ExPick("cron")
    \/ ExMark("cron")
    \/ ExFinal("cron")
    \/ PtGen("cron")
    \/ PtSleep("cron")
    \/ PtSet("cron")
    \/ SnTry("cron")
    \/ SnSleep("cron")
    \/ PtClear("cron")

SoloSpec == SoloInit /\ [][SoloNext]_vars

\* pcs at which a thread holds the result of processTask
TaskMarkPcs == {"ex_mark", "rpt_mark"}

\* thread t takes a step
Steps(t) == up' /\ <<pc'[t], loc'[t]>> # <<pc[t], loc[t]>>

C32_CalledTaskIsProcessing ==
    [][\A t \in Threads :
         (LlmCall(t) \/ NotifyCall(t))
         => tasks[loc[t].cur].status = "processing"]_vars

\* C37: a task whose stored status is completed keeps that status in every
\* step, and no thread calls the LLM summarizer or the notifier for it.
C37_CompletedIsAbsorbing ==
    [][\A k \in 1..Len(tasks) :
         (up' /\ tasks[k].status = "completed")
         => /\ tasks'[k].status = "completed"
            /\ \A t \in Threads :
                 ~((LlmCall(t) \/ NotifyCall(t)) /\ loc[t].cur = k)]_vars

\* C38: whenever the row of a daily run is completed, every task row of its
\* window is completed or failed.
C38_CompletedRunTasksTerminal ==
    \A r \in 1..Len(runs) :
        runs[r].status = "completed"
        => \A k \in 1..Len(tasks) :
              tasks[k].win = runs[r].win => tasks[k].status \in {"completed", "failed"}

C40_StopWaitsForAll ==
    (up /\ pc["cron"] = "stopped") => pc["rec"] \in {"done", "aborted"}

C27_QueryFailsRun ==
    [][\A t \in Threads :
         /\ (Steps(t) /\ pc[t] = "ex_query")
            => loc[t].attempt \in 1..(IF cfgRetryTimes <= 0 THEN DefaultRetryTimes
                                                            ELSE cfgRetryTimes)
         /\ (Steps(t) /\ pc[t] = "ex_qsleep" /\ pc'[t] = "ex_query")
            => loc'[t].attempt = loc[t].attempt + 1
         /\ (Steps(t) /\ pc[t] \in {"ex_query", "ex_qsleep"} /\ loc'[t].err = "failed")
            => /\ pc[t] = "ex_query"
               /\ pc'[t] \in RunMarkPcs
               /\ loc[t].attempt = (IF cfgRetryTimes <= 0 THEN DefaultRetryTimes
                                                            ELSE cfgRetryTimes)
         /\ (Steps(t) /\ pc[t] \in {"ex_query", "ex_qsleep"}) => store' = store
         /\ (Steps(t) /\ ~cancelled /\ pc[t] \in RunMarkPcs /\ loc[t].err = "failed")
            => /\ runs'[loc[t].runId].status = "failed"
               /\ runs'[loc[t].runId].err
               /\ tasks' = tasks
               /\ msgs' = msgs]_vars

\* C27 witness: with RetryTimes = 0 the query has failed three times and the
\* run has been marked failed with the error, no task created
C27_Witness ==
    /\ cfgRetryTimes = 0
    /\ tasks = <<>>
    /\ \E r \in 1..Len(runs) : runs[r].status = "failed" /\ runs[r].err

\* C28: within one processTask the summarizer is called with attempt numbers
\* 1, 2, .. up to retry_times (3 when RetryTimes <= 0); a new attempt follows
\* only a failed one; generateSummaryForTask returns an error only on
\* cancellation or when attempt number retry_times failed.
C28_PhaseARetryBound ==
    [][\A t \in Threads :
         /\ LlmCall(t) => loc[t].attempt \in 1..RetryTimes
         /\ (Steps(t) /\ pc'[t] = "pt_gen" /\ pc[t] # "pt_gen")
            => \/ pc[t] = "pt_sleep" /\ loc'[t].attempt = loc[t].attempt + 1
               \/ pc[t] \in {"ex_proc", "rpt_upd"} /\ loc'[t].attempt = 1
         /\ (Steps(t) /\ pc'[t] = "pt_sleep" /\ pc[t] # "pt_sleep")
            => /\ pc[t] = "pt_gen"
               /\ loc[t].attempt < RetryTimes
               /\ loc'[t].summary = ""
         /\ (Steps(t) /\ pc[t] \in {"pt_gen", "pt_sleep"} /\ pc'[t] \in TaskMarkPcs
                      /\ loc'[t].err # "none")
            => \/ cancelled /\ loc'[t].err = "cancelled"
               \/ /\ pc[t] = "pt_gen"
                  /\ loc'[t].err = "failed"
                  /\ loc[t].attempt = RetryTimes]_vars

\* C28 witness: with RetryTimes = 0 generateSummaryForTask has failed after
\* its third attempt
C28_Witness ==
    \E t \in Threads :
        /\ cfgRetryTimes = 0
        /\ pc[t] = "ex_mark"
        /\ loc[t].err = "failed"
        /\ loc[t].attempt = DefaultRetryTimes

\* C29: within one delivery phase the notifier is called with attempt
\* numbers 1 and 2 only, whatever RetryTimes is; a new attempt follows only a
\* failed one; the phase returns sent = true only from an attempt made while
\* not cancelled, with no error; summary_content is cleared only by the step
\* that follows a phase that returned sent = true for that task.
C29_PhaseBRetryBound ==
    [][/\ \A t \in Threads :
            /\ NotifyCall(t) => loc[t].attempt \in 1..NotifyRetryTimes
            /\ (Steps(t) /\ pc'[t] = "sn_try" /\ pc[t] # "sn_try")
               => \/ pc[t] = "sn_sleep" /\ loc'[t].attempt = loc[t].attempt + 1
                  \/ pc[t] \in {"pt_set", "rpt_upd"} /\ loc'[t].attempt = 1
            /\ (Steps(t) /\ pc'[t] = "sn_sleep" /\ pc[t] # "sn_sleep")
               => /\ pc[t] = "sn_try"
                  /\ loc[t].attempt < NotifyRetryTimes
                  /\ ~loc'[t].sent
            /\ (Steps(t) /\ pc[t] \in {"sn_try", "sn_sleep"}
                         /\ pc'[t] \in {"pt_clear", "rpt_sent"} /\ loc'[t].sent)
               => /\ pc[t] = "sn_try"
                  /\ ~cancelled
                  /\ loc'[t].err = "none"
       /\ \A k \in 1..Len(tasks) :
            (up' /\ tasks[k].summary # "" /\ tasks'[k].summary = "")
            => \E t \in Threads :
                  /\ pc[t] \in {"pt_clear", "rpt_sent"}
                  /\ loc[t].cur = k
                  /\ loc[t].sent]_vars

\* C29 witness: with RetryTimes = 0 (three summarization attempts) the
\* delivery phase has given up after its second attempt and reports
\* sent = false; the summary is still stored
C29_Witness ==
    \E t \in Threads :
        /\ cfgRetryTimes = 0
        /\ pc[t] = "pt_clear"
        /\ ~loc[t].sent
        /\ loc[t].err = "none"
        /\ loc[t].attempt = NotifyRetryTimes + 1
        /\ tasks[loc[t].cur].summary # ""

\* C30: for a non-stale task that recovery step 3 lists with a non-empty
\* summary_content, recovery goes straight to the delivery phase and stays in
\* it until it returns (the summarizer is not called); after a successful
\* delivery summary_content is cleared and the task is marked completed;
\* after a delivery whose attempts all failed the task is marked failed.
C30_RecoveryDeliveryOnly ==
    [][/\ (Steps("rec") /\ ~cancelled /\ pc["rec"] = "rpt_upd" /\ loc["rec"].summary # "")
          => pc'["rec"] = "sn_try"
       /\ (Steps("rec") /\ pc["rec"] \in {"sn_try", "sn_sleep"} /\ loc["rec"].sendRet = "rpt")
          => pc'["rec"] \in {"sn_try", "sn_sleep", "rpt_sent"}
       /\ (Steps("rec") /\ ~cancelled /\ pc["rec"] = "rpt_sent" /\ loc["rec"].sent)
          => /\ tasks'[loc["rec"].cur].summary = ""
             /\ pc'["rec"] = "rpt_cmark"
       /\ (Steps("rec") /\ ~cancelled /\ pc["rec"] = "rpt_cmark")
          => tasks'[loc["rec"].cur].status = "completed"
       /\ (Steps("rec") /\ ~cancelled /\ pc["rec"] = "rpt_sent" /\ ~loc["rec"].sent)
          => tasks'[loc["rec"].cur].status = "failed"]_vars

\* the step in which generateSummaryForTask of thread t returns to processTask
\* with no error and no summary, and processTask returns nil
NothingToSay(t) ==
    /\ up'
    /\ ~cancelled
    /\ pc[t] = "pt_gen"
    /\ pc'[t] \in TaskMarkPcs
    /\ loc'[t].err = "none"

\* C22: when the window holds no message of the chat, or the result renders
\* to the empty string, processTask returns nil without storing a summary;
\* the notifier is only ever called with a non-empty summary; and the caller
\* marks the task completed, its summary_content untouched.
C22_NothingToSay ==
    [][\A t \in Threads :
         /\ NotifyCall(t) => loc[t].summary # ""
         /\ (/\ up'
             /\ ~cancelled
             /\ pc[t] = "pt_gen"
             /\ pc'[t] # "pt_gen"
             /\ ~HasMessages(tasks[loc[t].cur].chat, tasks[loc[t].cur].win))
            => NothingToSay(t)
         /\ NothingToSay(t) =>
                /\ tasks' = tasks
                /\ loc'[t].summary = ""
         /\ (/\ up'
             /\ ~cancelled
             /\ pc[t] \in TaskMarkPcs
             /\ pc'[t] # pc[t]
             /\ loc[t].err = "none"
             /\ loc[t].summary = "")
            => /\ tasks'[loc[t].cur].status = "completed"
               /\ tasks'[loc[t].cur].summary = tasks[loc[t].cur].summary]_vars

\* C22 witness: processTask has returned nil with nothing to say; the task is
\* about to be marked and no summary was stored for it
C22_Witness ==
    \E t \in Threads :
        /\ ~cancelled
        /\ pc[t] \in TaskMarkPcs
        /\ loc[t].err = "none"
        /\ loc[t].summary = ""
        /\ tasks[loc[t].cur].status = "processing"
        /\ tasks[loc[t].cur].summary = ""

\* --------------------------------------------- a recovery pass on its own
\* the store a killed process left behind: the run of window 1, and in
\* RecWindows[2] also that of window 2, was being executed or had failed (its
\* chat-id query failed in an earlier recovery); chat 1 and possibly chat 2
\* have a task row in any status short of failed, processing possibly with
\* its summary stored;
\* the messages of the windows are still there or a later sweep took them.
\* The process starts the same day or when window 1 is at the staleness cutoff
RecWindows == {<<1, 1>>, <<1, 2>>}
RecTaskStates ==
    {[status |-> "pending", summary |-> ""],
     [status |-> "processing", summary |-> ""],
     [status |-> "processing", summary |-> "s1"],
     [status |-> "completed", summary |-> ""]}

RecInit ==
    /\ LlmIdle
    /\ SweepIdle
    /\ NotifyIdle
    /\ FmtIdle
    /\ NcIdle
    /\ cfgRetryTimes = CfgRetryTimes
    /\ up = FALSE
    /\ cancelled = FALSE
    /\ \E ws \in RecWindows :
        /\ today \in {ws[2], StaleDays}
        /\ \E st \in [1..(IF ws[1] = ws[2] THEN 1 ELSE 2) -> {"in_progress", "failed"}] :
               runs = [r \in DOMAIN st |->
                          [win |-> ws[r], status |-> st[r], err |-> st[r] = "failed"]]
        /\ \E n \in 1..2 : \E ts \in [1..n -> RecTaskStates] :
               tasks = [k \in 1..n |->
                          [chat |-> k, win |-> ws[k], status |-> ts[k].status,
                           summary |-> ts[k].summary, err |-> FALSE]]
        /\ msgs \in {{}, {<<k, ws[k] - 1>> : k \in 1..2}}
    /\ pc = [t \in Threads |-> "off"]
    /\ loc = [t \in Threads |-> InitLoc]
    /\ startTasks = <<>>
    /\ startInc = {}
    /\ pickedSince = {}

RecNext ==
    \/ Start
    \/ Stop
    \/ RecIncomplete
    \/ Rec1Loop
    \/ Rec1Mark
    \/ Rec2Get
    \/ Rec2Create
    \/ Rec2Mark
    \/ ExQuery("rec")
    \/ ExQuerySleep("rec")
    \/ ExEmpty("rec")
    \/ ExGetTask("rec")
    \/ ExCreateTask("rec")
    \/ ExPick("rec")
    \/ ExMark("rec")
    \/ ExFinal("rec")
    \/ PtGen("rec")
    \/ PtSleep("rec")
    \/ PtSet("rec")
    \/ SnTry("rec")
    \/ SnSleep("rec")
    \/ PtClear("rec")
    \/ RptList
    \/ RptReset
    \/ RptUpdate
    \/ RptSent
    \/ RptCompleteMark
    \/ RptMark

RecSpec == RecInit /\ [][RecNext]_vars

\* C33: in recovery step 3 a listed task whose start_time is earlier than
\* now - 7 days is skipped: the step changes no task row (status, error,
\* completed_at, summary_content), makes no LLM or notifier call, and goes on
\* to the next task of the list, which is handled; no call of the pass is
\* ever made for a stale task.
C33_StaleTaskSkipped ==
    [][/\ (up' /\ ~cancelled /\ pc["rec"] = "rpt_loop" /\ pc'["rec"] # "off"
              /\ loc'["rec"] # loc["rec"]
              /\ WinStart(tasks[Head(loc["rec"].pend).id].win) <= loc["rec"].staleMax)
          => /\ tasks' = tasks
             /\ ~LlmCall("rec")
             /\ ~NotifyCall("rec")
             /\ IF Tail(loc["rec"].pend) = <<>>
                THEN pc'["rec"] = "done"
                ELSE /\ pc'["rec"] = "rpt_loop"
                     /\ loc'["rec"].pend = Tail(loc["rec"].pend)
                     /\ loc'["rec"].staleMax = loc["rec"].staleMax
       /\ ((LlmCall("rec") \/ NotifyCall("rec"))
               /\ "rpt" \in {loc["rec"].ptRet, loc["rec"].sendRet})
          => WinStart(tasks[loc["rec"].cur].win) > loc["rec"].staleMax]_vars

\* C33 witness: the first listed task is stale and still as it was at the
\* start, and the pass is working on the task listed after it
C33_Witness ==
    /\ up
    /\ ~cancelled
    /\ pc["rec"] \in {"rpt_upd", "pt_gen", "sn_try"}
    /\ loc["rec"].cur = 2
    /\ WinStart(tasks[1].win) <= loc["rec"].staleMax
    /\ tasks[1].status \in {"pending", "processing"}
    /\ tasks[1].status = startTasks[1].status
    /\ tasks[1].summary = startTasks[1].summary

\* the steps of the recovery goroutine
RecPass ==
    \/ RecIncomplete \/ Rec1Loop \/ Rec1Mark \/ Rec2Get \/ Rec2Create \/ Rec2Mark
    \/ ExQuery("rec") \/ ExQuerySleep("rec") \/ ExEmpty("rec") \/ ExGetTask("rec")
    \/ ExCreateTask("rec") \/ ExPick("rec") \/ ExMark("rec") \/ ExFinal("rec")
    \/ PtGen("rec") \/ PtSleep("rec") \/ PtSet("rec")
    \/ SnTry("rec") \/ SnSleep("rec") \/ PtClear("rec")
    \/ RptList \/ RptReset \/ RptUpdate \/ RptSent \/ RptCompleteMark \/ RptMark

\* the goroutine keeps being scheduled and every LLM, notifier and store call
\* and every retry sleep returns
RecLiveSpec == RecInit /\ [][RecNext]_vars /\ WF_vars(RecPass)

\* what an uncancelled recovery pass leaves behind
RecoveredAll ==
    /\ \A r \in startInc : runs[r].status \in {"completed", "failed"}
    /\ \A k \in 1..Len(startTasks) :
          (startTasks[k].status \in {"pending", "processing"} /\ NonStale(tasks[k].win))
          => tasks[k].status \in {"completed", "failed"}

TypeOK ==
    /\ up \in BOOLEAN
    /\ cancelled \in BOOLEAN
    /\ today \in 1..MaxDay
    /\ \A r \in 1..Len(runs) : runs[r].status \in {"pending", "in_progress", "completed", "failed"}
    /\ \A k \in 1..Len(tasks) : tasks[k].status \in {"pending", "processing", "completed", "failed"}

\* ============================================================ LLM client
\* ------------------------------------------------------------- bounds
MaxMsgs == 4
MaxChunkTokens == 6

\* A prompt line "[sender|id] text" is known by what estimateTokens counts in
\* it: runes in U+4E00..U+9FFF, whitespace-separated words, bytes.
Lines ==
    { [cn |-> 0, words |-> 1, len |-> 5],
      [cn |-> 0, words |-> 2, len |-> 9],
      [cn |-> 2, words |-> 2, len |-> 14],
      [cn |-> 0, words |-> 1, len |-> 17] }

\* estimateTokens: int(cn*1.5 + words*1.3), at least len/4
estimateTokens(l) ==
    LET tokens == (15 * l.cn + 13 * l.words) \div 10
    IN IF tokens < l.len \div 4 THEN l.len \div 4 ELSE tokens

\* the message sequences of length n; a message is its id and its line
MsgSeqs(n) == {[i \in 1..n |-> [id |-> i, line |-> f[i]]] : f \in [1..n -> Lines]}

\* currentTokens+tokens > maxTokensPerChunk
OverflowsLate(currentTokens, tokens, k) == currentTokens > k
Overflows(currentTokens, tokens, k) == currentTokens + tokens > k

\* after the loop: the last chunk is appended when it is not empty
SplitEndDrop(chunks, current) == chunks
SplitEnd(chunks, current) ==
    IF Len(current) > 0 THEN Append(chunks, current) ELSE chunks

\* the loop of splitMessagesIntoChunks over the remaining messages ms
RECURSIVE SplitLoop(_, _, _, _, _)
SplitLoop(ms, k, chunks, current, currentTokens) ==
    IF ms = <<>> THEN SplitEnd(chunks, current)
    ELSE LET m == Head(ms)
             tokens == estimateTokens(m.line)
             flush == Overflows(currentTokens, tokens, k) /\ Len(current) > 0
         IN SplitLoop(Tail(ms), k,
                      IF flush THEN Append(chunks, current) ELSE chunks,
                      Append(IF flush THEN <<>> ELSE current, m),
                      (IF flush THEN 0 ELSE currentTokens) + tokens)

splitMessagesIntoChunks(ms, k) ==
    IF Len(ms) = 0 THEN <<>> ELSE SplitLoop(ms, k, <<>>, <<>>, 0)

\* ------------------------------------------------------------ chunker
ChunkInit ==
    /\ SchedIdle
    /\ SweepIdle
    /\ NotifyIdle
    /\ FmtIdle
    /\ NcIdle
    /\ SumIdle
    /\ cMsgs \in UNION {MsgSeqs(n) : n \in 0..MaxMsgs}
    /\ cMax \in (0 - 1)..MaxChunkTokens
    /\ cChunks = <<>>
    /\ cDone = FALSE
    /\ accumulated = NilTopics
    /\ partial = NilTopics
    /\ prevAccumulated = NilTopics
    /\ chunkNo = 0

\* one call of splitMessagesIntoChunks
Split ==
    /\ ~cDone
    /\ cChunks' = splitMessagesIntoChunks(cMsgs, cMax)
    /\ cDone' = TRUE
    /\ UNCHANGED <<cMsgs, cMax, sched, accumulated, partial, prevAccumulated, chunkNo,
                   sumVars, sweepVars, notifyVars, fmtVars, ncVars>>

ChunkNext == Split

ChunkSpec == ChunkInit /\ [][ChunkNext]_vars

RECURSIVE Concat(_)
Concat(ss) == IF ss = <<>> THEN <<>> ELSE Head(ss) \o Concat(Tail(ss))

RECURSIVE ChunkTokens(_)
ChunkTokens(c) ==
    IF c = <<>> THEN 0 ELSE estimateTokens(Head(c).line) + ChunkTokens(Tail(c))

\* C14: the chunks of splitMessagesIntoChunks, concatenated in order, are the
\* input messages; empty input gives no chunk and no chunk is empty.
C14_ChunkerPartition ==
    cDone =>
        /\ Concat(cChunks) = cMsgs
        /\ (cMsgs = <<>> => cChunks = <<>>)
        /\ \A i \in 1..Len(cChunks) : cChunks[i] # <<>>

\* C14 witness: the input was split into several chunks, one of them with
\* more than one message
C14_Witness ==
    /\ cDone
    /\ Len(cChunks) >= 2
    /\ \E i \in 1..Len(cChunks) : Len(cChunks[i]) >= 2

\* C15: every chunk of splitMessagesIntoChunks has estimated tokens summing to
\* at most the bound, or is a single message.
C15_ChunkerBound ==
    cDone =>
        \A i \in 1..Len(cChunks) :
            ChunkTokens(cChunks[i]) <= cMax \/ Len(cChunks[i]) = 1

\* C15 witness: a message over the bound was emitted alone, next to a chunk of
\* several messages within the bound
C15_Witness ==
    /\ cDone
    /\ \E i \in 1..Len(cChunks) :
          Len(cChunks[i]) = 1 /\ ChunkTokens(cChunks[i]) > cMax
    /\ \E i \in 1..Len(cChunks) :
          Len(cChunks[i]) >= 2 /\ ChunkTokens(cChunks[i]) <= cMax

\* ------------------------------------------------------------- merger
MaxTopics == 2
MaxItems == 2
MaxChunks == 2

Titles == {"A", "B"}

\* the topicSubItemJSON values an LLM reply is built from
Items ==
    { [sender |-> "x", desc |-> "d1", ids |-> <<1, 3>>],
      [sender |-> "x", desc |-> "d2", ids |-> <<2, 1>>],
      [sender |-> "y", desc |-> "d1", ids |-> <<2, 2>>] }

Senders == {it.sender : it \in Items}

SeqsUpTo(S, n) == UNION {[1..m -> S] : m \in 0..n}

\* the topicItemJSON values
TopicItems == [title : Titles, items : SeqsUpTo(Items, MaxItems)]

\* the topicsSummaryJSON values json.Unmarshal produces from a reply
Replies == {[nil |-> FALSE, topics |-> ts] : ts \in SeqsUpTo(TopicItems, MaxTopics)}

Range(f) == {f[i] : i \in DOMAIN f}

\* the second and fourth loop of mergeMessageIDs: ids still in seen are
\* appended to result and deleted from seen
RECURSIVE TakeSeen(_, _, _)
TakeSeen(xs, seen, result) ==
    IF xs = <<>> THEN [result |-> result, seen |-> seen]
    ELSE IF Head(xs) \in seen
    THEN TakeSeen(Tail(xs), seen \ {Head(xs)}, Append(result, Head(xs)))
    ELSE TakeSeen(Tail(xs), seen, result)

mergeMessageIDsNewOnly(a, b) == TakeSeen(b, Range(b), <<>>).result
mergeMessageIDs(a, b) ==
    LET fromA == TakeSeen(a, Range(a) \cup Range(b), <<>>)
    IN TakeSeen(b, fromA.seen, fromA.result).result

\* oldItemMap[sender]: the last index of the sender among items, 0 when absent
ItemIndex(items, sender) ==
    LET I == {i \in 1..Len(items) : items[i].sender = sender}
    IN IF I = {} THEN 0 ELSE CHOOSE i \in I : \A j \in I : j <= i

\* the Description of an item merged from an old and a new one
MergedDescriptionOld(old, new) == old.desc
MergedDescription(old, new) == new.desc

\* the loop of mergeTopicItems over new.Items; oldItems is what oldItemMap
\* was built from
RECURSIVE MergeItemsLoop(_, _, _)
MergeItemsLoop(newItems, oldItems, merged) ==
    IF newItems = <<>> THEN merged
    ELSE LET newItem == Head(newItems)
             oldIdx == ItemIndex(oldItems, newItem.sender)
         IN IF oldIdx # 0
            THEN MergeItemsLoop(Tail(newItems), oldItems,
                    [merged EXCEPT ![oldIdx] =
                        [sender |-> newItem.sender,
                         desc |-> MergedDescription(merged[oldIdx], newItem),
                         ids |-> mergeMessageIDs(merged[oldIdx].ids, newItem.ids)]])
            ELSE MergeItemsLoop(Tail(newItems), oldItems, Append(merged, newItem))

mergeTopicItems(old, new) ==
    [title |-> new.title, items |-> MergeItemsLoop(new.items, old.items, old.items)]

\* oldTopicMap[title]: the last index of the title among topics, 0 when absent
TopicIndex(topics, title) ==
    LET I == {i \in 1..Len(topics) : topics[i].title = title}
    IN IF I = {} THEN 0 ELSE CHOOSE i \in I : \A j \in I : j <= i

\* a topic of partial whose title is not in oldTopicMap is appended
AppendTopicDrop(topics, pt) == topics
AppendTopic(topics, pt) == Append(topics, pt)

\* the loop of mergeTopics over partial.Topics
RECURSIVE MergeTopicsLoop(_, _, _)
MergeTopicsLoop(pts, oldTopics, result) ==
    IF pts = <<>> THEN result
    ELSE LET pt == Head(pts)
             oldIdx == TopicIndex(oldTopics, pt.title)
         IN IF oldIdx # 0
            THEN MergeTopicsLoop(Tail(pts), oldTopics,
                    [result EXCEPT ![oldIdx] = mergeTopicItems(result[oldIdx], pt)])
            ELSE MergeTopicsLoop(Tail(pts), oldTopics, AppendTopic(result, pt))

mergeTopics(acc, par) ==
    IF acc.nil THEN par
    ELSE IF par.nil THEN acc
    ELSE [nil |-> FALSE, topics |-> MergeTopicsLoop(par.topics, acc.topics, acc.topics)]

\* SummarizeChat starts its chunk loop with accumulated = nil
MergeInit ==
    /\ SchedIdle
    /\ SweepIdle
    /\ NotifyIdle
    /\ FmtIdle
    /\ NcIdle
    /\ LlmIdle

\* one round of the chunk loop: the reply of the chunk is parsed and merged
MergeChunk ==
    /\ chunkNo < MaxChunks
    /\ \E reply \in Replies :
         /\ partial' = reply
         /\ prevAccumulated' = accumulated
         /\ accumulated' = mergeTopics(accumulated, reply)
    /\ chunkNo' = chunkNo + 1
    /\ UNCHANGED <<cMsgs, cMax, cChunks, cDone, sumVars, sched, sweepVars, notifyVars, fmtVars, ncVars>>

\* mergeTopics called with a nil partial
MergeNil ==
    /\ chunkNo < MaxChunks
    /\ partial' = NilTopics
    /\ prevAccumulated' = accumulated
    /\ accumulated' = mergeTopics(accumulated, NilTopics)
    /\ chunkNo' = chunkNo + 1
    /\ UNCHANGED <<cMsgs, cMax, cChunks, cDone, sumVars, sched, sweepVars, notifyVars, fmtVars, ncVars>>

MergeNext == MergeChunk \/ MergeNil

MergeSpec == MergeInit /\ [][MergeNext]_vars

\* ---------------------------------------------------- merger properties
TitlesOf(topics) == {topics[i].title : i \in 1..Len(topics)}
SendersOf(items) == {items[j].sender : j \in 1..Len(items)}

\* first occurrences of a sequence, in order
RECURSIVE Dedup(_)
Dedup(xs) ==
    IF xs = <<>> THEN <<>>
    ELSE LET front == Dedup(SubSeq(xs, 1, Len(xs) - 1))
             last == xs[Len(xs)]
         IN IF last \in Range(front) THEN front ELSE Append(front, last)

\* the elements of xs that are not in S, in order
RECURSIVE Without(_, _)
Without(xs, S) ==
    IF xs = <<>> THEN <<>>
    ELSE IF Head(xs) \in S THEN Without(Tail(xs), S)
    ELSE <<Head(xs)>> \o Without(Tail(xs), S)

\* places <<a, b>> of the items of topics with the title and the sender
Places(topics, title, sender) ==
    UNION {{<<a, b>> : b \in {b \in 1..Len(topics[a].items) :
                                  topics[a].items[b].sender = sender}} :
           a \in {a \in 1..Len(topics) : topics[a].title = title}}

\* the last of a set of places in the order mergeTopics visits them
LastPlace(M) ==
    CHOOSE pl \in M : \A q \in M : q[1] < pl[1] \/ (q[1] = pl[1] /\ q[2] <= pl[2])

\* the message ids recorded for a title and a sender
IdsUnder(topics, title, sender) ==
    UNION {Range(topics[pl[1]].items[pl[2]].ids) : pl \in Places(topics, title, sender)}

\* mergeTopics was applied to two non-nil summaries
BothGiven == chunkNo >= 1 /\ ~prevAccumulated.nil /\ ~partial.nil

\* item j of topic i of the old summary is the one the maps of mergeTopics
\* and mergeTopicItems point to, and partial has an item for its key
Matched(i, j) ==
    LET old == prevAccumulated.topics
    IN /\ TopicIndex(old, old[i].title) = i
       /\ ItemIndex(old[i].items, old[i].items[j].sender) = j
       /\ Places(partial.topics, old[i].title, old[i].items[j].sender) # {}

\* C16: mergeTopics keeps every topic of accumulated at its position (a topic
\* whose title is not in partial unchanged) and appends the topics of partial
\* with a new title in partial's order.
C16_MergerPreservation ==
    (chunkNo >= 1) =>
        LET old == prevAccumulated.topics
            new == partial.topics
            got == accumulated.topics
        IN /\ prevAccumulated.nil => accumulated = partial
           /\ (~prevAccumulated.nil /\ partial.nil) => accumulated = prevAccumulated
           /\ BothGiven =>
                /\ ~accumulated.nil
                /\ Len(got) >= Len(old)
                /\ \A i \in 1..Len(old) :
                      /\ got[i].title = old[i].title
                      /\ (old[i].title \notin TitlesOf(new)) => got[i] = old[i]
                /\ SubSeq(got, Len(old) + 1, Len(got))
                      = SelectSeq(new, LAMBDA t : t.title \notin TitlesOf(old))

\* C16 witness: a merge that kept a topic absent from partial and appended a
\* topic with a new title
C16_Witness ==
    /\ BothGiven
    /\ \E i \in 1..Len(prevAccumulated.topics) :
          /\ prevAccumulated.topics[i].title \notin TitlesOf(partial.topics)
          /\ prevAccumulated.topics[i].items # <<>>
    /\ Len(accumulated.topics) > Len(prevAccumulated.topics)

\* C17: for an item present in accumulated and in partial (same title, same
\* sender) the merged message_ids are accumulated's ids in order, then the
\* ids of partial not yet present, without duplicates; as a set they are the
\* union, and no id recorded for a title and sender is lost.
C17_MergerIdUnion ==
    BothGiven =>
        LET old == prevAccumulated.topics
            new == partial.topics
            got == accumulated.topics
        IN /\ \A i \in 1..Len(old) : \A j \in 1..Len(old[i].items) :
                Matched(i, j) =>
                    LET M == Places(new, old[i].title, old[i].items[j].sender)
                        a == old[i].items[j].ids
                        r == got[i].items[j].ids
                    IN /\ Range(r) = Range(a) \cup
                                     IdsUnder(new, old[i].title, old[i].items[j].sender)
                       /\ Dedup(r) = r
                       /\ SubSeq(r, 1, Len(Dedup(a))) = Dedup(a)
                       /\ (Cardinality(M) = 1) =>
                             LET b == new[LastPlace(M)[1]].items[LastPlace(M)[2]].ids
                             IN r = Dedup(a) \o Without(Dedup(b), Range(a))
           /\ \A t \in Titles : \A sn \in Senders :
                IdsUnder(got, t, sn) = IdsUnder(old, t, sn) \cup IdsUnder(new, t, sn)

\* C17 witness: a merged item whose ids come partly from accumulated only
\* and partly from partial only
C17_Witness ==
    /\ BothGiven
    /\ \E i \in 1..Len(prevAccumulated.topics) :
         \E j \in 1..Len(prevAccumulated.topics[i].items) :
            /\ Matched(i, j)
            /\ LET a == prevAccumulated.topics[i].items[j].ids
                   r == accumulated.topics[i].items[j].ids
                   sn == prevAccumulated.topics[i].items[j].sender
                   t == prevAccumulated.topics[i].title
               IN /\ Range(r) # Range(a)
                  /\ Range(r) # IdsUnder(partial.topics, t, sn)

\* C18: an item present in accumulated and in partial keeps its position and
\* its sender and carries the description of partial; the items of partial
\* whose sender is new to the topic are appended after the existing items.
C18_MergerDescription ==
    BothGiven =>
        LET old == prevAccumulated.topics
            new == partial.topics
            got == accumulated.topics
        IN /\ \A i \in 1..Len(old) : \A j \in 1..Len(old[i].items) :
                /\ Len(got[i].items) >= Len(old[i].items)
                /\ got[i].items[j].sender = old[i].items[j].sender
                /\ Matched(i, j) =>
                     LET pl == LastPlace(Places(new, old[i].title, old[i].items[j].sender))
                     IN got[i].items[j].desc = new[pl[1]].items[pl[2]].desc
           /\ \A i \in 1..Len(old) :
                LET T == {a \in 1..Len(new) : new[a].title = old[i].title}
                IN (TopicIndex(old, old[i].title) = i /\ Cardinality(T) = 1) =>
                      LET a == CHOOSE a \in T : TRUE
                      IN SubSeq(got[i].items, Len(old[i].items) + 1, Len(got[i].items))
                            = SelectSeq(new[a].items,
                                        LAMBDA it : it.sender \notin SendersOf(old[i].items))

\* C18 witness: a merged item whose description changed, in a topic that
\* also received an item of a new sender
C18_Witness ==
    /\ BothGiven
    /\ \E i \in 1..Len(prevAccumulated.topics) :
         /\ Len(accumulated.topics[i].items) > Len(prevAccumulated.topics[i].items)
         /\ \E j \in 1..Len(prevAccumulated.topics[i].items) :
               /\ Matched(i, j)
               /\ accumulated.topics[i].items[j].desc
                     # prevAccumulated.topics[i].items[j].desc

\* C19: when the titles of accumulated are pairwise distinct (or it is nil)
\* and partial was parsed from a reply, the titles after mergeTopics are
\* pairwise distinct, after every chunk.
C19_TitlesUnique ==
    (/\ chunkNo >= 1
     /\ ~partial.nil
     /\ \A i, j \in 1..Len(prevAccumulated.topics) :
           prevAccumulated.topics[i].title = prevAccumulated.topics[j].title => i = j)
    => \A i, j \in 1..Len(accumulated.topics) :
           accumulated.topics[i].title = accumulated.topics[j].title => i = j

\* ------------------------------------ the chunk loop of SummarizeChat
\* the chunked path was taken and splitMessagesIntoChunks returned sumChunks
\* chunks
SumInit ==
    /\ SchedIdle
    /\ SweepIdle
    /\ NotifyIdle
    /\ FmtIdle
    /\ NcIdle
    /\ cMsgs = <<>>
    /\ cMax = 0
    /\ cChunks = <<>>
    /\ cDone = FALSE
    /\ accumulated = NilTopics
    /\ partial = NilTopics
    /\ prevAccumulated = NilTopics
    /\ chunkNo = 0
    /\ sumChunks \in 1..MaxChunks
    /\ sumCalls = <<>>
    /\ sumReplies = <<>>
    /\ sumRet = "running"
    /\ sumOut = <<>>

\* one round of the loop: summarizeChatOnce returns a reply that parses, and
\* the reply is merged
SumChunk ==
    /\ sumRet = "running"
    /\ chunkNo < sumChunks
    /\ \E reply \in Replies :
         /\ partial' = reply
         /\ sumReplies' = Append(sumReplies, reply)
         /\ prevAccumulated' = accumulated
         /\ accumulated' = mergeTopics(accumulated, reply)
    /\ sumCalls' = Append(sumCalls, chunkNo + 1)
    /\ chunkNo' = chunkNo + 1
    /\ UNCHANGED <<cMsgs, cMax, cChunks, cDone, sumChunks, sumRet, sumOut,
                   sched, sweepVars, notifyVars, fmtVars, ncVars>>

\* one round of the loop: summarizeChatOnce or json.Unmarshal returns an
\* error, SummarizeChat returns "" and the error
SumChunkFailSkip ==
    /\ sumRet = "running"
    /\ chunkNo < sumChunks
    /\ sumCalls' = Append(sumCalls, chunkNo + 1)
    /\ chunkNo' = chunkNo + 1
    /\ UNCHANGED <<cMsgs, cMax, cChunks, cDone, accumulated, partial, prevAccumulated,
                   sumChunks, sumReplies, sumRet, sumOut,
                   sched, sweepVars, notifyVars, fmtVars, ncVars>>
SumChunkFail ==
    /\ sumRet = "running"
    /\ chunkNo < sumChunks
    /\ sumCalls' = Append(sumCalls, chunkNo + 1)
    /\ sumRet' = "error"
    /\ sumOut' = <<>>
    /\ UNCHANGED <<cMsgs, cMax, cChunks, cDone, accumulated, partial, prevAccumulated,
                   chunkNo, sumChunks, sumReplies,
                   sched, sweepVars, notifyVars, fmtVars, ncVars>>

\* after the last chunk: json.Marshal(accumulated) is returned
SumReturn ==
    /\ sumRet = "running"
    /\ chunkNo = sumChunks
    /\ sumRet' = "ok"
    /\ sumOut' = <<accumulated>>
    /\ UNCHANGED <<cMsgs, cMax, cChunks, cDone, accumulated, partial, prevAccumulated,
                   chunkNo, sumChunks, sumCalls, sumReplies,
                   sched, sweepVars, notifyVars, fmtVars, ncVars>>

SumNext == SumChunk \/ SumChunkFail \/ SumReturn

SumSpec == SumInit /\ [][SumNext]_vars

\* C35: in the chunked path summarizeChatOnce is called once per chunk, in
\* chunk order; when the call or the parsing of its reply fails for chunk i,
\* SummarizeChat returns the error with the empty string, whatever had been
\* accumulated, and chunk i is the last chunk a call was made for.
C35_ChunkFailureFailsCall ==
    /\ sumCalls = [i \in 1..Len(sumCalls) |-> i]
    /\ Len(sumCalls) <= sumChunks
    /\ sumRet = "running"
          => /\ Len(sumCalls) = chunkNo
             /\ Len(sumReplies) = chunkNo
             /\ sumOut = <<>>
    /\ sumRet = "ok"
          => /\ Len(sumCalls) = sumChunks
             /\ Len(sumReplies) = sumChunks
             /\ sumOut = <<accumulated>>
    /\ sumRet = "error"
          => /\ Len(sumCalls) = Len(sumReplies) + 1
             /\ sumOut = <<>>

\* C35 witness: the call failed for the second chunk, after the reply of the
\* first had been accumulated
C35_Witness ==
    /\ sumRet = "error"
    /\ sumCalls = <<1, 2>>
    /\ ~accumulated.nil
    /\ accumulated.topics # <<>>

\* the message ids the replies gave for a title and a sender
IdsGiven(t, sn) ==
    UNION {IdsUnder(sumReplies[i].topics, t, sn) : i \in 1..Len(sumReplies)}

\* the replies that mention a title and a sender
Mentions(t, sn) == {i \in 1..Len(sumReplies) : Places(sumReplies[i].topics, t, sn) # {}}

\* the descriptions the last reply that mentions the pair gave for it
LastDescs(t, sn) ==
    LET last == CHOOSE i \in Mentions(t, sn) : \A j \in Mentions(t, sn) : j <= i
    IN {sumReplies[last].topics[pl[1]].items[pl[2]].desc :
            pl \in Places(sumReplies[last].topics, t, sn)}

\* C36: after all chunks the returned result has every title that a reply
\* had, and for every (title, sender) pair that a reply mentioned an item
\* with the union of the message ids given for the pair in all replies and
\* the description of the last reply that mentioned it.
C36_AccumulationAcrossChunks ==
    (sumRet = "ok") =>
        LET got == sumOut[1].topics
        IN /\ \A i \in 1..Len(sumReplies) : TitlesOf(sumReplies[i].topics) \subseteq TitlesOf(got)
           /\ \A t \in Titles : \A sn \in Senders :
                (Mentions(t, sn) # {}) =>
                    \E pl \in Places(got, t, sn) :
                        /\ Range(got[pl[1]].items[pl[2]].ids) = IdsGiven(t, sn)
                        /\ got[pl[1]].items[pl[2]].desc \in LastDescs(t, sn)

\* ====================================================== retention sweep
MaxNow == 7
MaxRetention == 2

SweepInit ==
    /\ SchedIdle
    /\ LlmIdle
    /\ NotifyIdle
    /\ FmtIdle
    /\ NcIdle
    /\ swNow \in 0..MaxNow
    /\ swDays \in 0..MaxRetention
    /\ swMsgs \in SUBSET (0..MaxNow)
    /\ swLeft = {}
    /\ swDone = FALSE

\* one call of cleanupMessages; a failed DeleteBefore deletes nothing
Sweep ==
    /\ ~swDone
    /\ \E err \in BOOLEAN :
          swLeft' = IF err THEN swMsgs
                    ELSE DeleteBefore(swMsgs, CutoffDate(swNow, swDays))
    /\ swDone' = TRUE
    /\ UNCHANGED <<swNow, swDays, swMsgs, sched, llmVars, notifyVars, fmtVars, ncVars>>

SweepNext == Sweep

SweepSpec == SweepInit /\ [][SweepNext]_vars

\* the UTC day of a time in ticks
DayOf(t) == t \div TicksPerDay

\* C20: the sweep deletes only messages sent before the start of the UTC day
\* of now - (retention_days + 1) days, and deletes no message sent at or
\* after the start of today minus retention_days days.
C20_RetentionSafety ==
    swDone =>
        /\ swLeft \subseteq swMsgs
        /\ \A m \in swMsgs \ swLeft : DayOf(m) < DayOf(swNow) - (swDays + 1)
        /\ \A m \in swMsgs :
              (m >= DayOf(swNow) * TicksPerDay - swDays * TicksPerDay) => m \in swLeft

\* C20 witness: a sweep that deleted a message and kept a message of the
\* day before the retention window
C20_Witness ==
    /\ swDone
    /\ swMsgs \ swLeft # {}
    /\ \E m \in swLeft : DayOf(m) = DayOf(swNow) - (swDays + 1)

\* ============================================================= notifier
MaxSegs == 2

NotifyModes == {"private", "group", "both", "other"}
\* the values of n.config.NotifyUserIds
UserIdLists == {<<>>, <<"u1">>, <<"u1", "u2">>}
\* the chatID argument of Notify
GroupChat == "g"
Recipients == {"u1", "u2", GroupChat}

\* the SendMessage calls of the two nested loops, in order: every message of
\* splitMessage to every recipient
SendList(recips, segs) ==
    [n \in 1..(Len(recips) * segs) |->
        <<recips[((n - 1) \div segs) + 1], ((n - 1) % segs) + 1>>]

\* the loops return at the first SendMessage that fails
SendUntilError(list) ==
    LET bad == {n \in 1..Len(list) : list[n] \in nFails}
    IN IF bad = {}
       THEN [sends |-> list, err |-> FALSE]
       ELSE [sends |-> SubSeq(list, 1, CHOOSE n \in bad : \A m \in bad : n <= m),
             err |-> TRUE]

notifyPrivate ==
    IF Len(nUserIds) = 0
    THEN [sends |-> <<>>, err |-> FALSE]
    ELSE SendUntilError(SendList(nUserIds, nSegs))

notifyGroup == SendUntilError(SendList(<<GroupChat>>, nSegs))

\* Notifier.Notify; nSegs = 0 stands for content == ""
NotifyResult ==
    IF nSegs = 0 THEN [sends |-> <<>>, err |-> FALSE]
    ELSE IF nMode = "private" THEN notifyPrivate
    ELSE IF nMode = "group" THEN notifyGroup
    ELSE IF nMode = "both"
    THEN [sends |-> notifyPrivate.sends \o notifyGroup.sends, err |-> FALSE]
    ELSE [sends |-> <<>>, err |-> FALSE]

NotifyInit ==
    /\ SchedIdle
    /\ LlmIdle
    /\ SweepIdle
    /\ FmtIdle
    /\ NcIdle
    /\ nMode \in NotifyModes
    /\ nUserIds \in UserIdLists
    /\ nSegs \in 0..MaxSegs
    /\ nFails \in SUBSET (Recipients \X (1..MaxSegs))
    /\ nSends = <<>>
    /\ nErr = FALSE
    /\ nDone = FALSE

\* one call of Notify
Notify ==
    /\ ~nDone
    /\ nSends' = NotifyResult.sends
    /\ nErr' = NotifyResult.err
    /\ nDone' = TRUE
    /\ UNCHANGED <<nMode, nUserIds, nSegs, nFails, sched, llmVars, sweepVars, fmtVars, ncVars>>

NotifyNext == Notify

NotifySpec == NotifyInit /\ [][NotifyNext]_vars

\* C21: in the modes private, group and both, a Notify during which a
\* SendMessage failed returns an error.
C21_FailedSendIsError ==
    (nDone /\ nMode \in {"private", "group", "both"}) =>
        ((\E n \in 1..Len(nSends) : nSends[n] \in nFails) => nErr)

\* ============================================================ formatter
\* int64 scaled down: IntBits bits, two's complement
IntBits == 5
IntModulus == 2 ^ IntBits
IntMin == 0 - (IntModulus \div 2)
IntMax == (IntModulus \div 2) - 1
\* the result of an int64 operation whose exact value is x
Wrap(x) == ((x - IntMin) % IntModulus) + IntMin

\* stands for 1000000000000 in buildMessageLink
GroupOffset == 3

\* texts are sequences of characters
Amp == <<"&", "a", "m", "p", ";">>
Lt == <<"&", "l", "t", ";">>
Gt == <<"&", "g", "t", ";">>
Quot == <<"&", "q", "u", "o", "t", ";">>

\* strings.ReplaceAll for a one-character pattern
RECURSIVE ReplaceAll(_, _, _)
ReplaceAll(text, c, by) ==
    IF text = <<>> THEN <<>>
    ELSE (IF Head(text) = c THEN by ELSE <<Head(text)>>) \o ReplaceAll(Tail(text), c, by)

escapeHTML(text) ==
    ReplaceAll(ReplaceAll(ReplaceAll(ReplaceAll(text, "&", Amp), "<", Lt), ">", Gt), "\"", Quot)

\* buildMessageLink; the URL is "https://t.me/c/", channelID, "/", messageID
buildMessageLink(chatID, messageID) ==
    LET channelID == Wrap(Wrap(0 - chatID) - GroupOffset)
    IN IF channelID <= 0 THEN <<>>
       ELSE <<"https://t.me/c/", ToString(channelID), "/", ToString(messageID)>>

\* a piece of the text written to the strings.Builder and where it comes from
Piece(src, text) == [src |-> src, text |-> text]

\* the link brackets of one item
RECURSIVE LinkPieces(_, _)
LinkPieces(chatID, ids) ==
    IF ids = <<>> THEN <<>>
    ELSE LET link == buildMessageLink(chatID, Head(ids))
         IN (IF link # <<>>
             THEN <<Piece("fixed", <<" [<a href=\"">>),
                    Piece("href", escapeHTML(link)),
                    Piece("fixed", <<"\">link</a>]">>)>>
             ELSE <<>>)
            \o LinkPieces(chatID, Tail(ids))

RECURSIVE ItemPieces(_, _)
ItemPieces(chatID, items) ==
    IF items = <<>> THEN <<>>
    ELSE <<Piece("fixed", <<"- <b>">>),
           Piece("sender", escapeHTML(Head(items).sender)),
           Piece("fixed", <<"</b> ">>),
           Piece("desc", escapeHTML(Head(items).desc))>>
         \o LinkPieces(chatID, Head(items).ids)
         \o <<Piece("fixed", <<"\n">>)>>
         \o ItemPieces(chatID, Tail(items))

RECURSIVE TopicPieces(_, _, _)
TopicPieces(chatID, topics, i) ==
    IF topics = <<>> THEN <<>>
    ELSE <<Piece("fixed", <<"\n", ToString(i), ". ">>),
           Piece("title", escapeHTML(Head(topics).title)),
           Piece("fixed", <<"\n">>)>>
         \o ItemPieces(chatID, Head(topics).items)
         \o TopicPieces(chatID, Tail(topics), i + 1)

FormatSummaryForDisplay(result, chatID) ==
    IF result.nil \/ Len(result.topics) = 0 THEN <<>>
    ELSE <<Piece("fixed", <<"<b>header</b>\n">>),
           Piece("fixed", <<"start", " - ", "end", " (UTC)\n">>)>>
         \o TopicPieces(chatID, result.topics, 1)

\* the inputs
FmtTitles == {<<"a">>, <<"&">>, <<"<", "a", ">">>, <<"\"">>, <<"'">>, <<"&", "l", "t", ";">>}
FmtSenders == {<<"a">>, <<"<">>}
FmtDescs == {<<"a">>, <<"'", "&">>, <<"\"", ">">>}
FmtIds == {<<>>, <<1>>, <<1, 2>>}
FmtItems == [sender : FmtSenders, desc : FmtDescs, ids : FmtIds]
FmtTopics == [title : FmtTitles, items : {<<>>} \cup {<<it>> : it \in FmtItems}]
FmtResults ==
    {[nil |-> TRUE, topics |-> <<>>], [nil |-> FALSE, topics |-> <<>>]}
    \cup {[nil |-> FALSE, topics |-> <<tp>>] : tp \in FmtTopics}

FmtInit ==
    /\ SchedIdle
    /\ LlmIdle
    /\ SweepIdle
    /\ NotifyIdle
    /\ NcIdle
    /\ fResult \in FmtResults
    /\ fChatID \in IntMin..IntMax
    /\ fOut = <<>>
    /\ fDone = FALSE

\* one call of FormatSummaryForDisplay
Format ==
    /\ ~fDone
    /\ fOut' = FormatSummaryForDisplay(fResult, fChatID)
    /\ fDone' = TRUE
    /\ UNCHANGED <<fResult, fChatID, sched, llmVars, sweepVars, notifyVars, ncVars>>

FmtNext == Format

FmtSpec == FmtInit /\ [][FmtNext]_vars

\* the pieces of the output that come from user-supplied text
UserPieces == {n \in 1..Len(fOut) : fOut[n].src \in {"title", "sender", "desc", "href"}}

\* the five HTML entities
Entities == {Amp, Lt, Gt, Quot, <<"&", "#", "3", "9", ";">>}

\* at position i of text one of the entities starts
EntityAt(text, i) ==
    \E e \in Entities :
        /\ i + Len(e) - 1 <= Len(text)
        /\ SubSeq(text, i, i + Len(e) - 1) = e

\* C23: in the output of FormatSummaryForDisplay no piece that comes from a
\* title, a sender name, a description or a link URL holds a raw <, >, " or ',
\* and every & in such a piece starts an HTML entity.
C23_FiveCharsEscaped ==
    fDone =>
        \A n \in UserPieces : \A i \in 1..Len(fOut[n].text) :
            /\ fOut[n].text[i] \notin {"<", ">", "\"", "'"}
            /\ fOut[n].text[i] = "&" => EntityAt(fOut[n].text, i)

\* all message ids of the result, in order
AllIds(result) ==
    Concat([t \in 1..Len(result.topics) |->
              Concat([i \in 1..Len(result.topics[t].items) |->
                        result.topics[t].items[i].ids])])

\* the link URLs in the output, in order
RECURSIVE Hrefs(_)
Hrefs(out) ==
    IF out = <<>> THEN <<>>
    ELSE (IF Head(out).src = "href" THEN <<Head(out).text>> ELSE <<>>) \o Hrefs(Tail(out))

\* C24: when chat_id < -10^12 the output holds for every message id, in
\* order, the link https://t.me/c/{-chat_id - 10^12}/{message_id}; for every
\* other chat_id (-10^12 itself, positive ids) buildMessageLink is empty and
\* the output holds no link at all.
C24_DeepLink ==
    fDone =>
        LET ids == AllIds(fResult)
        IN IF fChatID < 0 - GroupOffset
           THEN Hrefs(fOut) =
                   [n \in 1..Len(ids) |->
                       <<"https://t.me/c/", ToString((0 - fChatID) - GroupOffset), "/",
                         ToString(ids[n])>>]
           ELSE /\ Hrefs(fOut) = <<>>
                /\ \A m \in 1..2 : buildMessageLink(fChatID, m) = <<>>

\* ============================================================ NewClient
MaxTokenSteps == 100
TokenStep == 100
\* tokens NewClient reserves for the system prompt and the output
ReservedTokens == 2000
\* the floor of max_input_tokens
FloorTokens == 6000

\* the values of LLM.MaxTokens that Config.Validate accepts
ValidMaxTokens == {n * TokenStep : n \in 1..MaxTokenSteps} \cap {n \in Nat : n > 0}

\* maxInputTokens of the client NewClient builds
NewClient(maxTokens) == maxTokens - ReservedTokens

NcInit ==
    /\ SchedIdle
    /\ LlmIdle
    /\ SweepIdle
    /\ NotifyIdle
    /\ FmtIdle
    /\ ncMaxTokens \in ValidMaxTokens
    /\ ncMaxInput = 0
    /\ ncDone = FALSE

\* one call of NewClient
Build ==
    /\ ~ncDone
    /\ ncMaxInput' = NewClient(ncMaxTokens)
    /\ ncDone' = TRUE
    /\ UNCHANGED <<ncMaxTokens, sched, llmVars, sweepVars, notifyVars, fmtVars>>

NcNext == Build

NcSpec == NcInit /\ [][NcNext]_vars

\* C25: for every valid LLM.MaxTokens the client's max_input_tokens is
\* MaxTokens - 2000 or 6000, whichever is larger; it is never below 6000.
C25_MaxInputFloor ==
    ncDone =>
        /\ ncMaxInput = (IF ncMaxTokens - ReservedTokens >= FloorTokens
                         THEN ncMaxTokens - ReservedTokens ELSE FloorTokens)
        /\ ncMaxInput >= FloorTokens

====
